---- MODULE Spec2Model ----
(***************************************************************************)
(* Model of the go-ini reading pipeline: the scanner's token fetchers      *)
(* (scannerc.go), the token -> event state machine (unnamed/part_006) and  *)
(* the tree builder with its merge engine (decode.go, second revision,     *)
(* lines 580..).                                                           *)
(*                                                                         *)
(* The input text is represented line by line as the lexeme groups the     *)
(* scanner's dispatcher (ini_parser_fetch_next_token) turns into tokens:   *)
(* one group per fetcher call.  Nodes are records; a Section or Mapping    *)
(* node keeps its children as the flat key,value,key,value,... sequence    *)
(* of the Go code.  Source positions (line, column) and scalar tags are    *)
(* not represented.                                                        *)
(***************************************************************************)
EXTENDS Integers, Sequences, FiniteSets, TLC

(***************************************************************************)
(* Bounds of the explored inputs.                                          *)
(***************************************************************************)
MaxLines == 3
MaxDepth == 3

Keys == {"a", "b"}
SectionNames == {"s", "t"}
DEFAULT_SECTION == "default"

(***************************************************************************)
(* The state: the scanner's and the parser's fields of ini_parser_t, the   *)
(* tree builder's fields and locals, and history records.                  *)
(***************************************************************************)
VARIABLES
  buffer,                  \* the unread lexeme groups of the current line
  nlines,                  \* lines read so far
  eof,                     \* the input is exhausted
  document_start_produced, \* parser.document_start_produced
  column,                  \* parser.mark.column, counted in lexeme groups
  scan,                    \* where ini_parser_scan_scalar stands in its loop
  h_fetch,                 \* history: the error the reader or the scanner recorded
  tokens,                  \* parser.tokens[parser.tokens_head:]
  queue,                   \* parser.tokens with its capacity, and parser.tokens_head
  fetch_failed,            \* peek_token returned nil in the pending call
  state,                   \* parser.state
  states,                  \* parser.states
  error,                   \* parser.error
  problem,                 \* parser.problem
  problem_mark,            \* parser.problem_mark.line
  h_events,                \* history: the kinds of the events the parser returned
  header,                  \* how the section being parsed was introduced:
                           \* "none" (no header), "plain" ([name), "colon" ([name:parent)
  event,                   \* p.event
  skipping,                \* p.skip() has called ini_parser_parse
  pc,                      \* where the tree builder stands
  doc,                     \* p.doc.children
  keyNode,                 \* document(): keyNode
  nextNode,                \* document(): nextNode when it is an Inherit node
  thisNode,                \* section(): thisNode
  path,                    \* key segments read for the entry being built
  val,                     \* the scalar value read for the entry being built
  err,                     \* the error of the parse call
  h_assign,                \* history: the last assignment section() made
  h_merge,                 \* history: the last inheritance document() resolved
  h_doc,                   \* history: per section of doc, its children before
                           \* inheritance and the pair it inherited from (0: none)
  out,                     \* the node tree d.unmarshal is given
  dst,                     \* the type of Unmarshal's destination
  bound,                   \* the value of Unmarshal's destination
  terrors,                 \* d.terrors
  structMap,               \* structMap, the cache of getStructInfo
  fieldMapMutex,           \* fieldMapMutex: the readers and the writer that hold it
  call,                    \* per goroutine, its call of Unmarshal: where it stands in
                           \* getStructInfo, its decoder and parser, st, sinfo and found
  objects                  \* the number of decoders and parsers allocated so far

(***************************************************************************)
(* Nodes (decode.go: type node).  A node record carries, beside the fields *)
(* of the struct, its owner: the number of the section that was being      *)
(* built when p.node allocated it.  Two nodes with different owners are    *)
(* different objects.                                                      *)
(***************************************************************************)
documentNode == "document"
inheritNode == "inherit"
sectionNode == "section"
mappingNode == "mapping"
scalarNode == "scalar"

\* The number of the section under construction: one more than the number
\* of pairs the Document node holds.
Building == Len(doc) \div 2 + 1

node(kind) == [kind |-> kind, value |-> "", children |-> <<>>, owner |-> Building]

scalar(v) == [node(scalarNode) EXCEPT !.value = v]

inherit(v) == [node(inheritNode) EXCEPT !.value = v]

RECURSIVE clone_node(_)
clone_node(n) ==
  [node(n.kind) EXCEPT
     !.value = n.value,
     !.children = [i \in 1..Len(n.children) |-> clone_node(n.children[i])]]

\* The node as the struct's fields describe it, whoever allocated it.
RECURSIVE Plain(_)
Plain(n) ==
  [kind |-> n.kind, value |-> n.value,
   children |-> [i \in 1..Len(n.children) |-> Plain(n.children[i])]]

\* Number of (key, value) pairs of a flat children sequence.
Pairs(ch) == Len(ch) \div 2

KeyAt(ch, p) == ch[2 * p - 1]

ValAt(ch, p) == ch[2 * p]

\* Positions (pair indexes) among the first cnt pairs of ch whose key node
\* matches the key node k the way merge_node's inner loop compares them.
MergeMatches(ch, cnt, k) ==
  {p \in 1..cnt : k.kind = scalarNode /\ KeyAt(ch, p).kind = scalarNode
                   /\ k.value = KeyAt(ch, p).value}

Min(S) == CHOOSE x \in S : \A y \in S : x <= y

RECURSIVE merge_node(_, _, _)
RECURSIVE MergeLoop(_, _, _, _, _, _)

\* merge_node's outer loop leaving a matched pair as it is, without the
\* recursive call.
MergeLoop_shallow(ch, cnt, src, i, swap, overwrite) ==
  IF i > Pairs(src) THEN ch \o swap
  ELSE
    LET k == KeyAt(src, i)
        v == ValAt(src, i)
        m == MergeMatches(ch, cnt, k)
    IN IF m = {}
       THEN MergeLoop(ch, cnt, src, i + 1, swap \o <<k, v>>, overwrite)
       ELSE
         LET j == Min(m)
             tv == ValAt(ch, j)
             nv == IF v.kind = tv.kind THEN tv
                   ELSE IF overwrite THEN clone_node(v) ELSE tv
         IN MergeLoop([ch EXCEPT ![2 * j] = nv], cnt, src, i + 1, swap, overwrite)

\* The outer loop of merge_node from source pair i on: ch is the target's
\* children as modified so far, swap the pairs collected for appending.
MergeLoop(ch, cnt, src, i, swap, overwrite) ==
  IF i > Pairs(src) THEN ch \o swap
  ELSE
    LET k == KeyAt(src, i)
        v == ValAt(src, i)
        m == MergeMatches(ch, cnt, k)
    IN IF m = {}
       THEN MergeLoop(ch, cnt, src, i + 1, swap \o <<k, v>>, overwrite)
       ELSE
         LET j == Min(m)
             tv == ValAt(ch, j)
             nv == IF v.kind = tv.kind
                   THEN IF Len(v.children) > 0 /\ Len(tv.children) > 0
                        THEN merge_node(tv, clone_node(v), overwrite)
                        ELSE tv
                   ELSE IF overwrite THEN clone_node(v) ELSE tv
         IN MergeLoop([ch EXCEPT ![2 * j] = nv], cnt, src, i + 1, swap, overwrite)

\* merge_node without its final append loop: pairs the target lacks are lost.
merge_node_existing_only(targetNode, sourceNode, overwrite) ==
  IF targetNode.kind = sourceNode.kind
  THEN [targetNode EXCEPT !.children =
          SubSeq(MergeLoop(targetNode.children, Pairs(targetNode.children),
                           sourceNode.children, 1, <<>>, overwrite),
                 1, Len(targetNode.children))]
  ELSE targetNode

\* merge_node that never takes its overwrite branch.
merge_node_no_overwrite(targetNode, sourceNode, overwrite) ==
  IF targetNode.kind = sourceNode.kind
  THEN [targetNode EXCEPT !.children =
          MergeLoop(targetNode.children, Pairs(targetNode.children),
                    sourceNode.children, 1, <<>>, FALSE)]
  ELSE targetNode

\* parser.merge_node (decode.go 729-761): the target after the merge.
merge_node(targetNode, sourceNode, overwrite) ==
  IF targetNode.kind = sourceNode.kind
  THEN [targetNode EXCEPT !.children =
          MergeLoop(targetNode.children, Pairs(targetNode.children),
                    sourceNode.children, 1, <<>>, overwrite)]
  ELSE targetNode

\* parser.section, the body of its loop (decode.go 806-836): the children of
\* the section after the pair (currentNodeKey, currentNodeValue) is assigned.
RECURSIVE KeepPairs(_, _, _, _)
KeepPairs(ch, p, currentNodeKey, currentNodeValue) ==
  IF p > Pairs(ch) THEN <<>>
  ELSE
    LET rest == KeepPairs(ch, p + 1, currentNodeKey, currentNodeValue)
    IN IF KeyAt(ch, p).value = currentNodeKey.value
       THEN IF ValAt(ch, p).kind = currentNodeValue.kind
            THEN <<KeyAt(ch, p), ValAt(ch, p)>> \o rest
            ELSE rest
       ELSE <<KeyAt(ch, p), ValAt(ch, p)>> \o rest

\* section's loop body without the search for the key: the pair is always
\* appended.
section_assign_append(children, currentNodeKey, currentNodeValue) ==
  children \o <<currentNodeKey, currentNodeValue>>

\* section's loop body replacing the value of an existing key instead of
\* merging into it.
section_assign_replace(children, currentNodeKey, currentNodeValue) ==
  LET swapChildNodes == KeepPairs(children, 1, currentNodeKey, currentNodeValue)
      m == MergeMatches(swapChildNodes, Pairs(swapChildNodes), currentNodeKey)
  IN IF m = {}
     THEN swapChildNodes \o <<currentNodeKey, currentNodeValue>>
     ELSE [swapChildNodes EXCEPT ![2 * Min(m)] = clone_node(currentNodeValue)]

\* parser.section (decode.go 806-836): the filter loop, then the merge into
\* the pair found or the append of the new pair.
section_assign(children, currentNodeKey, currentNodeValue) ==
  LET swapChildNodes == KeepPairs(children, 1, currentNodeKey, currentNodeValue)
      m == MergeMatches(swapChildNodes, Pairs(swapChildNodes), currentNodeKey)
  IN IF m = {}
     THEN swapChildNodes \o <<currentNodeKey, currentNodeValue>>
     ELSE
       LET i == Min(m)
           old == ValAt(swapChildNodes, i)
       IN [swapChildNodes EXCEPT ![2 * i] =
             IF old.kind # currentNodeValue.kind
             THEN clone_node(currentNodeValue)
             ELSE merge_node(old, clone_node(currentNodeValue), TRUE)]

\* parser.mapping (decode.go 843-883): a fresh Mapping node holding the one
\* pair read below the Mapping event (its own children are empty when the
\* pair is looked up, so the pair is appended).
mapping(currentNodeKey, currentNodeValue) ==
  LET newNode == node(mappingNode)
      m == {p \in 1..Pairs(newNode.children) :
              currentNodeKey.kind = KeyAt(newNode.children, p).kind
              /\ currentNodeKey.value = KeyAt(newNode.children, p).value}
  IN IF m # {}
     THEN LET i == Min(m)
              old == ValAt(newNode.children, i)
          IN [newNode EXCEPT !.children[2 * i] =
                IF old.kind # currentNodeValue.kind
                THEN clone_node(currentNodeValue)
                ELSE merge_node(old, clone_node(currentNodeValue), TRUE)]
     ELSE [newNode EXCEPT !.children = <<currentNodeKey, currentNodeValue>>]

\* The value node the nested mapping() calls return for the key segments
\* keys[from..] and the scalar value v.
RECURSIVE value_chain(_, _, _)
value_chain(keys, from, v) ==
  IF from > Len(keys) THEN v
  ELSE mapping(scalar(keys[from]), value_chain(keys, from + 1, v))

\* parser.document, the inherit lookup (decode.go 773-780): the positions of
\* the Document's pairs whose name is the inherited one.
InheritMatches(docChildren, name) ==
  {p \in 1..Pairs(docChildren) :
     KeyAt(docChildren, p).kind = scalarNode /\ KeyAt(docChildren, p).value = name}

\* The inheritance merge called with overwrite = true.
inherit_section_overwrite(docChildren, childNode, name) ==
  LET m == InheritMatches(docChildren, name)
  IN IF m = {} THEN childNode
     ELSE merge_node(childNode, clone_node(ValAt(docChildren, Min(m))), TRUE)

\* The section body returned as section() built it, the inherited section
\* not merged into it.
inherit_section_unmerged(docChildren, childNode, name) == childNode

\* The inheritance merge handed the parent's own nodes instead of a clone.
inherit_section_no_clone(docChildren, childNode, name) ==
  LET m == InheritMatches(docChildren, name)
  IN IF m = {} THEN childNode
     ELSE merge_node(childNode, ValAt(docChildren, Min(m)), FALSE)

\* parser.document (decode.go 770-784): the section body after the merge of
\* the inherited section, when that section exists.
inherit_section(docChildren, childNode, name) ==
  LET m == InheritMatches(docChildren, name)
  IN IF m = {} THEN childNode
     ELSE merge_node(childNode, clone_node(ValAt(docChildren, Min(m))), FALSE)

(***************************************************************************)
(* The input.  A line of the text is one of                                *)
(*   entry    path = value          (key segments joined by ".")           *)
(*   header   [name] or [name:parent], followed by a line break            *)
(*   keyonly  a key with no "=" on its line                                *)
(*   nobreak  a header followed by more text on the same line              *)
(*   noclose  [name with no closing "]"                                    *)
(*   quoted   key = ''x: an empty quoted value followed by more text       *)
(*   indented a header [name] behind a blank                               *)
(*   valueonly  = value, with no key before the "="                        *)
(*   remark   key = value #text, blanks around the value                   *)
(*   escape   key = "text", the text holding a "\" and what follows it      *)
(*   starred  key = value, a segment of the key being "*"                  *)
(*   comment  a line whose first character that is no blank is "#" or ";"  *)
(*   bom      a byte-order mark and, behind it, a header or an entry       *)
(* and is read as the lexeme groups the token dispatcher sees, one group   *)
(* per fetcher call.  The value of the entry on line n is the text of n:   *)
(* the builder compares keys and section names only, never values.         *)
(***************************************************************************)
\* The dotted keys of the entries: at every depth up to MaxDepth, the path
\* a.b.a... of that depth less one, followed by either key.
Spine(n) == [i \in 1..n |-> IF i % 2 = 1 THEN "a" ELSE "b"]

PathsOfLen(n) == {Append(Spine(n - 1), k) : k \in Keys}

Paths == UNION {PathsOfLen(n) : n \in 1..MaxDepth}

NoPath == <<>>

Line(t, name, parent, segs) == [t |-> t, name |-> name, parent |-> parent, path |-> segs]

\* The quotes a scalar is written in: single quotes or double quotes.
Quotes == {"'", "\""}

\* The keys of the lines that are written with quotes: a key and a dotted key.
WrittenPaths == {<<"a">>, <<"a", "b">>}

\* The keys of the lines with a segment that starts with a character that is
\* no letter, digit, "_" or "-": as the whole key and as the last segment of
\* a dotted key.
StarredPaths == {<<"*">>, <<"a", "*">>}

\* The name of the header that stands behind a byte-order mark: [t].
BomSection == "t"

\* The lines that hold an integer outside the range of its destination: key
\* a with a value above the range of int8, key b with a negative value.
IntegerOf == [a |-> "128", b |-> "-1"]

\* The text behind the "=" of the line whose value is followed by a remark,
\* "a= 1 #c", and the characters of that text.
Remarked == " 1 #c"

RemarkedChars == <<" ", "1", " ", "#", "c">>

\* The texts between the double quotes of the lines whose value holds an
\* escape sequence, with their characters: a="x\ty", and, the escape sequence
\* standing behind a doubled quote, a=""\t" and a=""\x41".
Escaped ==
  [tab |-> <<"x", "\\", "t", "y">>,
   quotes_tab |-> <<"\"", "\\", "t">>,
   quotes_hex |-> <<"\"", "\\", "x", "4", "1">>]

Lines ==
  {Line("entry", "", "", p) : p \in Paths}
  \cup {Line("header", n, q, NoPath) : n \in SectionNames, q \in {""} \cup SectionNames}
  \cup {Line("header", DEFAULT_SECTION, "", NoPath)}
  \cup {Line("keyonly", "", "", <<"a">>)}
  \cup {Line("nobreak", "s", q, NoPath) : q \in {"", "s"}}
  \cup {Line("noclose", "s", "", NoPath)}
  \cup {Line("quoted", "", "", <<"a">>)}
  \cup {Line("indented", "s", "", NoPath)}
  \cup {Line("valueonly", "", "", NoPath)}
  \cup {Line("written", q, q, p) : q \in Quotes, p \in WrittenPaths}
  \cup {Line("number", IntegerOf[k], "", <<k>>) : k \in DOMAIN IntegerOf}
  \cup {Line("remark", Remarked, "", <<"a">>)}
  \cup {Line("escape", e, "", <<"a">>) : e \in DOMAIN Escaped}
  \cup {Line("starred", q, "", p) : q \in {""} \cup Quotes, p \in StarredPaths}
  \cup {Line("comment", "#", "", NoPath), Line("comment", ";", " ", NoPath)}
  \cup {Line("bom", BomSection, "", NoPath), Line("bom", "", "", <<"a">>)}

\* The value text of a "quoted" line, and what is left of it behind the pair
\* of quotes.
QuotesThenText == "''x"

TextBehindQuotes == "x"

Lexeme(lex, text, segs, brk) ==
  [lex |-> lex, text |-> text, path |-> segs, brk |-> brk, quote |-> ""]

\* The group g written between a pair of quotes q.
Quoted(g, q) == [g EXCEPT !.quote = q]

\* The characters of the groups of a header, as they stand in the line.
RECURSIVE Text(_)
Text(groups) ==
  IF groups = <<>> THEN ""
  ELSE (CASE Head(groups).lex = "[" -> "[" \o Head(groups).text
          [] Head(groups).lex = ":" -> ":" \o Head(groups).text
          [] Head(groups).lex = "]" -> "]"
          [] OTHER -> Head(groups).text)
       \o Text(Tail(groups))

\* The lexeme groups of line l, the n-th line of the text.
Lexemes(l, n) ==
  CASE l.t = "entry" ->
         <<Lexeme("key", "", l.path, TRUE), Lexeme("=", ToString(n), NoPath, TRUE)>>
    [] l.t = "keyonly" -> <<Lexeme("key", "", l.path, TRUE)>>
    [] l.t = "valueonly" -> <<Lexeme("=", ToString(n), NoPath, TRUE)>>
    [] l.t = "escape" ->
         <<Lexeme("key", "", l.path, TRUE), Quoted(Lexeme("=", l.name, NoPath, TRUE), "\"")>>
    [] l.t \in {"number", "remark"} ->
         <<Lexeme("key", "", l.path, TRUE), Lexeme("=", l.name, NoPath, TRUE)>>
    [] l.t \in {"written", "starred"} ->
         <<Quoted(Lexeme("key", "", l.path, TRUE), l.name),
           Quoted(Lexeme("=", ToString(n), NoPath, TRUE), l.parent)>>
    [] l.t = "quoted" ->
         <<Lexeme("key", "", l.path, TRUE), Lexeme("=", QuotesThenText, NoPath, TRUE)>>
    [] l.t = "noclose" -> <<Lexeme("[", l.name, NoPath, TRUE)>>
    [] l.t = "bom" ->
         <<Lexeme("bom", "", NoPath, TRUE)>>
         \o (IF l.path = NoPath
             THEN <<Lexeme("[", l.name, NoPath, TRUE), Lexeme("]", "", NoPath, TRUE)>>
             ELSE <<Lexeme("key", "", l.path, TRUE), Lexeme("=", ToString(n), NoPath, TRUE)>>)
    [] l.t = "comment" ->
         (IF l.parent = "" THEN <<>> ELSE <<Lexeme("blank", "", NoPath, TRUE)>>)
         \o <<Lexeme("comment", l.name, NoPath, TRUE)>>
    [] l.t = "indented" ->
         <<Lexeme("blank", "", NoPath, TRUE), Lexeme("[", l.name, NoPath, TRUE),
           Lexeme("]", "", NoPath, TRUE)>>
    [] OTHER ->
         <<Lexeme("[", l.name, NoPath, TRUE)>>
         \o (IF l.parent = "" THEN <<>> ELSE <<Lexeme(":", l.parent, NoPath, TRUE)>>)
         \o <<Lexeme("]", "", NoPath, l.t = "header")>>

(***************************************************************************)
(* The scalar scanners, on the characters of a group.  A character is a    *)
(* string of length one; the content of a value group is one run of        *)
(* characters that are neither quotes, blanks, breaks, "=" nor "\".        *)
(***************************************************************************)
LF == "\n"

\* The NUL the reader puts behind the last character of the input.
NUL == "NUL"

is_break(c) == c = LF

is_z(c) == c = NUL

is_breakz(c) == is_break(c) \/ is_z(c)

is_blank(c) == c = " " \/ c = "\t"

\* is_alpha: the characters [0-9a-zA-Z_-] (scannerc.go 570), of which the
\* texts have these.
is_alpha(c) == c \in {"a", "b", "c", "s", "t", "x", "y", "A", "F", "0", "1", "4", "9", "_", "-"}

\* parser.buffer[i], the buffer being s and what follows it.
CharAt(s, i) == IF i <= Len(s) THEN s[i] ELSE NUL

\* string(value): the characters as one string.
RECURSIVE Str(_)
Str(cs) == IF cs = <<>> THEN "" ELSE Head(cs) \o Str(Tail(cs))

\* The characters of a dotted key.
RECURSIVE Dotted(_)
Dotted(segs) ==
  IF Len(segs) <= 1 THEN segs
  ELSE <<Head(segs), ".">> \o Dotted(Tail(segs))

\* The characters of the text of a value.
Chars(text) ==
  IF text = Remarked THEN RemarkedChars
  ELSE IF text \in DOMAIN Escaped THEN Escaped[text]
  ELSE <<text>>

\* The characters of group g as they stand in the line, with the character
\* that follows the group.
Raw(g, next) ==
  LET content == IF g.lex = "key" THEN Dotted(g.path) ELSE Chars(g.text)
  IN (IF g.quote = "" THEN content ELSE <<g.quote>> \o content \o <<g.quote>>)
     \o <<next>>

\* What a scalar scanner returns: status "token" with the token's value and
\* the position behind what it consumed, "false" for a return of false, and
\* "loop" when an iteration of its loop neither consumes nor leaves.
Scanned(status, value, pos) == [status |-> status, value |-> value, pos |-> pos]

\* scannerc.go 701-709 and 723-731: the characters up to the closing quote.
RECURSIVE ReadToQuote(_, _, _, _)
ReadToQuote(s, pos, acc, q) ==
  IF CharAt(s, pos) = q THEN Scanned("token", acc, pos)
  ELSE IF is_breakz(CharAt(s, pos)) THEN Scanned("false", acc, pos)
  ELSE ReadToQuote(s, pos + 1, Append(acc, CharAt(s, pos)), q)

\* scannerc.go 745-774: the character an escape character denotes.
EscapeOf == "t" :> "\t" @@ "n" :> "\n" @@ "\\" :> "\\" @@ "\"" :> "\"" @@ "'" :> "'"

\* scannerc.go 789-794: the number of hexadecimal digits behind x, u and U.
CodeLength == "x" :> 2 @@ "u" :> 4 @@ "U" :> 8

\* as_hex on the digits the texts hold.
as_hex == "0" :> 0 @@ "1" :> 1 @@ "4" :> 4 @@ "9" :> 9 @@ "A" :> 10 @@ "F" :> 15

is_hex(c) == c \in DOMAIN as_hex

RECURSIVE HexValue(_, _, _, _)
\* scannerc.go 811-818: value = (value << 4) + as_hex for k digits from pos.
HexValue(s, pos, k, value) ==
  IF k = 0 THEN value
  ELSE HexValue(s, pos + 1, k - 1, value * 16 + as_hex[CharAt(s, pos)])

\* scannerc.go 826-840: the character with code value, a name for the
\* UTF-8 sequence of a code that is none of the characters of the texts.
Chr(value) ==
  IF value = 9 THEN "\t" ELSE IF value = 65 THEN "A" ELSE "U+" \o ToString(value)

\* scannerc.go 805-846: the code of length n that starts at pos.
HexEscape(s, pos, acc, n) ==
  IF \E k \in 0..(n - 1) : ~is_hex(CharAt(s, pos + k)) THEN Scanned("false", acc, pos)
  ELSE IF HexValue(s, pos, n, 0) \in 55296..57343 \/ HexValue(s, pos, n, 0) > 1114111
       THEN Scanned("false", acc, pos)
       ELSE Scanned("token", Append(acc, Chr(HexValue(s, pos, n, 0))), pos + n)

\* scannerc.go 741-848: the escape sequence whose "\" stands at pos.
EscapeSequence(s, pos, acc) ==
  IF CharAt(s, pos + 1) \in DOMAIN EscapeOf
  THEN Scanned("token", Append(acc, EscapeOf[CharAt(s, pos + 1)]), pos + 2)
  ELSE IF CharAt(s, pos + 1) \in DOMAIN CodeLength
       THEN HexEscape(s, pos + 2, acc, CodeLength[CharAt(s, pos + 1)])
       ELSE Scanned("false", acc, pos)

\* scannerc.go 686-862, the loop of ini_parser_scan_scalar from position pos
\* with the value acc read so far; q is the quote character.  Behind a left
\* quote the characters up to the next quote are read as they stand
\* (701-709, 723-731); the cases of a "\" (732-848) are those of a double-
\* quoted scalar at the head of an iteration.  A character that starts
\* none of the cases is skipped by none of them.
RECURSIVE scan_scalar_loop(_, _, _, _)
scan_scalar_loop(s, pos, acc, q) ==
  IF is_z(CharAt(s, pos)) THEN Scanned("token", acc, pos)
  ELSE IF q = "\"" /\ CharAt(s, pos) = "\\" /\ is_break(CharAt(s, pos + 1))
       THEN Scanned("token", acc, pos + 2)
  ELSE LET body == IF CharAt(s, pos) = q /\ CharAt(s, pos + 1) = q
                   THEN Scanned("token", acc, pos + 2)
                   ELSE IF CharAt(s, pos) = q
                        THEN ReadToQuote(s, pos + 1, acc, q)
                        ELSE IF q = "\"" /\ CharAt(s, pos) = "\\"
                             THEN EscapeSequence(s, pos, acc)
                             ELSE Scanned("token", acc, pos)
       IN IF body.status = "false" THEN body
          ELSE IF CharAt(s, body.pos) = q THEN Scanned("token", body.value, body.pos + 1)
          ELSE IF is_break(CharAt(s, body.pos)) THEN Scanned("token", body.value, body.pos + 1)
          ELSE IF body.pos = pos THEN Scanned("loop", body.value, pos)
          ELSE scan_scalar_loop(s, body.pos, body.value, q)

\* A scanner that takes every character up to the one behind the group,
\* quotes included.
ini_parser_scan_scalar_verbatim(s, single) == Scanned("token", SubSeq(s, 1, Len(s) - 1), Len(s))

\* scannerc.go 682-878.
ini_parser_scan_scalar(s, single) ==
  scan_scalar_loop(s, 1, <<>>, IF single THEN "'" ELSE "\"")

\* bytes.Trim(s, " ").
RECURSIVE TrimLeft(_)
TrimLeft(cs) == IF cs # <<>> /\ Head(cs) = " " THEN TrimLeft(Tail(cs)) ELSE cs

RECURSIVE TrimRight(_)
TrimRight(cs) ==
  IF cs # <<>> /\ cs[Len(cs)] = " " THEN TrimRight(SubSeq(cs, 1, Len(cs) - 1)) ELSE cs

Trim(cs) == TrimRight(TrimLeft(cs))

\* scannerc.go 885-901, the loop of ini_parser_scan_plain_scalar.
RECURSIVE scan_plain_scalar_loop(_, _, _)
scan_plain_scalar_loop(s, pos, acc) ==
  IF is_break(CharAt(s, pos)) THEN Scanned("token", acc, pos + 1)
  ELSE IF is_z(CharAt(s, pos)) \/ CharAt(s, pos) = "=" THEN Scanned("token", acc, pos)
  ELSE scan_plain_scalar_loop(s, pos + 1, Append(acc, CharAt(s, pos)))

\* scannerc.go 881-915.
ini_parser_scan_plain_scalar(s) ==
  LET r == scan_plain_scalar_loop(s, 1, <<>>)
  IN Scanned(r.status, Trim(r.value), r.pos)

\* The scanner that ini_parser_fetch_key (569-586) and ini_parser_fetch_value
\* (663-679) choose by the first character.
ScanScalar(s) ==
  IF CharAt(s, 1) = "'" THEN ini_parser_scan_scalar(s, TRUE)
  ELSE IF CharAt(s, 1) = "\"" THEN ini_parser_scan_scalar(s, FALSE)
  ELSE ini_parser_scan_plain_scalar(s)

\* bytes.Split(value, "."): the segment that ends at the first "." and the
\* segments behind it.
RECURSIVE Split(_, _)
Split(cs, seg) ==
  IF cs = <<>> THEN <<Str(seg)>>
  ELSE IF Head(cs) = "." THEN <<Str(seg)>> \o Split(Tail(cs), <<>>)
  ELSE Split(Tail(cs), Append(seg, Head(cs)))

\* The style of the token of a scalar that starts with character c.
StyleOf(c) ==
  IF c = "'" THEN "SINGLE_QUOTED" ELSE IF c = "\"" THEN "DOUBLE_QUOTED" ELSE "PLAIN"

(***************************************************************************)
(* Tokens and events.                                                      *)
(***************************************************************************)
\* parser.mark.line: the line breaks consumed so far, the break of a line
\* counted with its last group.
mark_line == IF buffer = <<>> THEN nlines ELSE nlines - 1

\* A token the scanner appends now: its start mark is parser.mark.
Token(typ, value) ==
  [typ |-> typ, value |-> value, line |-> mark_line,
   style |-> IF typ \in {"SCALAR", "MAP"} THEN "PLAIN" ELSE "ANY"]

\* The SCALAR token of a value, which keeps the style it was written in.
ScalarToken(value, style) == [Token("SCALAR", value) EXCEPT !.style = style]

\* The segments ini_parser_fetch_key (587) gets for key group g, "=" being
\* the character behind a key.
GroupKeys(g) == Split(ScanScalar(Raw(g, "=")).value, <<>>)

\* The test of the key's first character left out.
CannotStart_never(s) == FALSE

\* ini_parser_fetch_key 569-575: the key starts with a single quote and the
\* character behind the quote is neither alpha nor "~".
CannotStart(s) ==
  CharAt(s, 1) = "'" /\ ~is_alpha(CharAt(s, 2)) /\ CharAt(s, 2) # "~"

\* The problem ini_parser_fetch_key records for the character c.
cannot_start(c) == "found character(" \o c \o ") that cannot start for any key"

\* scannerc.go 648-657: ini_parser_fetch_value skips the blanks behind "=".
RECURSIVE SkipBlanks(_)
SkipBlanks(s) == IF s # <<>> /\ is_blank(Head(s)) THEN SkipBlanks(Tail(s)) ELSE s

\* The SCALAR token ini_parser_fetch_value (663-679) appends for value group
\* g, a line break being the character behind a value.
ValueToken(g) ==
  LET s == SkipBlanks(Raw(g, LF))
  IN ScalarToken(Str(ScanScalar(s).value), StyleOf(CharAt(s, 1)))

Event(typ, value) == [typ |-> typ, value |-> value]

NoEvent == Event("NO_EVENT", "")

NoNode == [kind |-> "none", value |-> "", children |-> <<>>, owner |-> 0]

NoError == [kind |-> "none", msg |-> "", arg |-> ""]

\* What the reader or the scanner recorded when a token fetch failed.
FetchError(kind, msg) == [kind |-> kind, msg |-> msg]

NoFetchError == FetchError("none", "")

\* The destination value before and after d.unmarshal has bound a tree.
NotWritten == [written |-> FALSE, tree |-> <<>>]

Written(tree) == [written |-> TRUE, tree |-> tree]

\* ini.go failf: the error Unmarshal returns.
failf(format, arg) == [kind |-> "ini", msg |-> format, arg |-> arg]

\* ini.go 104-114: the TypeError Unmarshal returns, with the entries of
\* d.terrors.
TypeError(errors) == [kind |-> "TypeError", msg |-> "unmarshal errors", arg |-> errors]

\* A panic that handleErr does not recover.
panic(msg) == [kind |-> "panic", msg |-> msg, arg |-> ""]

\* The tokens of a dotted key with no MAP token between the segments.
RECURSIVE KeyTokens_no_map(_, _)
KeyTokens_no_map(keys, i) ==
  IF i > Len(keys) THEN <<>>
  ELSE <<Token("KEY", ""), Token("SCALAR", keys[i])>> \o KeyTokens_no_map(keys, i + 1)

\* scannerc.go ini_parser_fetch_key 588-627: the tokens of a dotted key.
RECURSIVE KeyTokens(_, _)
KeyTokens(keys, i) ==
  IF i > Len(keys) THEN <<>>
  ELSE <<Token("KEY", ""), Token("SCALAR", keys[i])>>
       \o (IF i < Len(keys) THEN <<Token("MAP", ".")>> ELSE <<>>)
       \o KeyTokens(keys, i + 1)

\* History records: no assignment made yet in the section, no inheritance
\* resolved yet for it.
NoAssign == [made |-> FALSE, before |-> <<>>, path |-> <<>>, val |-> NoNode]

NoMerge == [made |-> FALSE, child |-> NoNode, parent |-> NoNode, found |-> FALSE,
            name |-> "", header |-> "none"]

(***************************************************************************)
(* Decoder: d.unmarshal binds the node tree to the destination value.      *)
(* Types are reflect types by name; pointers and Unmarshaler               *)
(* implementations (prepare, 970-992) are left out.                        *)
(***************************************************************************)
IfaceT == "interface{}"

StringT == "string"

Int8T == "int8"

Uint8T == "uint8"

\* defaultMapType.
MapIfaceT == "map[interface{}]interface{}"

MapStringIfaceT == "map[string]interface{}"

\* MapSlice, a slice of MapItem{Key, Value interface{}}.
MapStringInt8T == "map[string]int8"

MapSliceT == "[]MapItem"

StructT == "struct{A int8; B uint8; S map[string]interface{}}"

\* The destinations a caller passes to Unmarshal.
DestTypes == {MapStringIfaceT, MapStringInt8T, MapSliceT, StructT}

\* reflect.Type.Kind.
Kind(t) ==
  CASE t \in {MapIfaceT, MapStringIfaceT, MapStringInt8T} -> "Map"
    [] t = MapSliceT -> "Slice"
    [] t = StructT -> "Struct"
    [] t = IfaceT -> "Interface"
    [] t = StringT -> "String"
    [] t = Int8T -> "Int"
    [] t = Uint8T -> "Uint"

\* reflect.Type.Key and reflect.Type.Elem of a map type.
Key(t) == IF t = MapIfaceT THEN IfaceT ELSE StringT

Elem(t) == IF t = MapStringInt8T THEN Int8T ELSE IfaceT

\* reflect.Type.Bits of an integer type.
Bits(t) == 8

\* getStructInfo (ini.go 140-184): the keys of the fields of StructT, the
\* lowered field names, with the types of the fields.
FieldsMap == [a |-> Int8T, b |-> Uint8T, s |-> MapStringIfaceT]

\* A Go value: nil, an integer, a string, a map (its entries), a MapSlice
\* (its items in order) or a struct (an entry for every field).
Value(kind, int, str, entries, items) ==
  [kind |-> kind, int |-> int, str |-> str, entries |-> entries, items |-> items]

Nil == Value("nil", 0, "", {}, <<>>)

IntV(n) == Value("int", n, "", {}, <<>>)

StrV(str) == Value("string", 0, str, {}, <<>>)

MapV(entries) == Value("map", 0, "", entries, <<>>)

SliceV(items) == Value("slice", 0, "", {}, items)

StructV(entries) == Value("struct", 0, "", entries, <<>>)

Item(k, v) == [key |-> k, val |-> v]

\* The zero value of the field with key f of StructT.
ZeroField(f) == IF FieldsMap[f] \in {Int8T, Uint8T} THEN IntV(0) ELSE Nil

\* reflect.Zero.
Zero(t) ==
  CASE Kind(t) \in {"Int", "Uint"} -> IntV(0)
    [] Kind(t) = "String" -> StrV("")
    [] Kind(t) = "Struct" -> StructV({Item(StrV(f), ZeroField(f)) : f \in DOMAIN FieldsMap})
    [] OTHER -> Nil

\* reflect.Value.SetMapIndex.
SetMapIndex(m, k, e) == MapV({x \in m.entries : x.key # k} \cup {Item(k, e)})

\* The field of struct value v with key f, and v with that field set.
Field(v, f) == (CHOOSE x \in v.entries : x.key = StrV(f)).val

SetField(v, f, e) == StructV({x \in v.entries : x.key # StrV(f)} \cup {Item(StrV(f), e)})

\* The integers strconv.ParseInt reads from the values of the model.
IntRange == -129..256

\* The decimal numerals of these integers, and the integer of each.
Numerals == {ToString(n) : n \in IntRange}

NumeralValue == [numeral \in Numerals |-> CHOOSE n \in IntRange : ToString(n) = numeral]

IsInt(in) == in \in Numerals

ParseInt(in) == NumeralValue[in]

ini_STR_TAG == "str"

ini_INT_TAG == "int"

ini_NULL_TAG == "null"

ini_MAP_TAG == "map"

\* resolve.go 68-165 for the tags "" and "str" and the values of the model:
\* the null values, decimal integers and strings (booleans and floats are
\* not among them).
resolve(tag, in) ==
  IF tag # ini_STR_TAG /\ in \in {"", "~", "null"} THEN [tag |-> ini_NULL_TAG, v |-> Nil]
  ELSE IF tag # ini_STR_TAG /\ IsInt(in) THEN [tag |-> ini_INT_TAG, v |-> IntV(ParseInt(in))]
  ELSE [tag |-> ini_STR_TAG, v |-> StrV(in)]

\* x cut to a signed integer of b bits, which is what SetInt stores.
TruncInt(x, b) == ((x + 2^(b - 1)) % 2^b) - 2^(b - 1)

\* A check that never reports an overflow.
OverflowInt_never(x, b) == FALSE

\* reflect.Value.OverflowInt and OverflowUint.
OverflowInt(x, b) == x # TruncInt(x, b)

OverflowUint(x, b) == x # x % 2^b

\* What a call of the decoder gives: whether the node was bound, the value
\* of the destination, the entries added to d.terrors, and whether the call
\* panicked.
Bound(good, v, errs) == [good |-> good, val |-> v, terrors |-> errs, panic |-> FALSE]

\* A decoder that records no type error.
terror_dropped(n, tag, t) == <<>>

\* decode.go 928-939 d.terror: the entry for node n with tag tag that does
\* not fit type t.
terror(n, tag, t) == <<[tag |-> tag, value |-> n.value, into |-> t]>>

\* decode.go 1283-1435 d.scalar: node n with tag tag into a destination of
\* type t that holds cur.
d_scalar(n, tag, t, cur) ==
  LET r == resolve(tag, n.value)
      x == r.v.int
  IN IF r.v = Nil THEN Bound(TRUE, Zero(t), <<>>)
     ELSE CASE Kind(t) = "String" -> Bound(TRUE, StrV(n.value), <<>>)
            [] Kind(t) = "Interface" -> Bound(TRUE, r.v, <<>>)
            [] Kind(t) = "Int" /\ r.v.kind = "int" /\ ~OverflowInt(x, Bits(t)) ->
                 Bound(TRUE, IntV(TruncInt(x, Bits(t))), <<>>)
            [] Kind(t) = "Uint" /\ r.v.kind = "int" /\ x >= 0 /\ ~OverflowUint(x, Bits(t)) ->
                 Bound(TRUE, IntV(x % 2^Bits(t)), <<>>)
            [] OTHER -> Bound(FALSE, cur, terror(n, IF tag # "" THEN tag ELSE r.tag, t))

RECURSIVE d_unmarshal(_, _, _, _, _)
RECURSIVE d_mapping(_, _, _, _)
RECURSIVE MapLoop(_, _, _, _, _, _)
RECURSIVE d_mappingSlice(_, _)
RECURSIVE SliceLoop(_, _, _, _)
RECURSIVE d_mappingStruct(_, _, _, _)
RECURSIVE StructLoop(_, _, _, _, _)

\* decode.go 994-1012 d.unmarshal below the document node: node n, whose
\* tag is tag, into a destination of type t that holds cur, d.mapType being
\* mapType.
d_unmarshal(n, tag, t, cur, mapType) ==
  IF n.kind = scalarNode THEN d_scalar(n, tag, t, cur)
  ELSE d_mapping(n, t, cur, mapType)

\* decode.go 1206-1222 and 1132-1151, the loop of d.mapping over the pairs
\* of ch from pair i on: m is the map, errs the entries recorded so far.
MapLoop(ch, i, t, m, errs, mapType) ==
  IF i > Pairs(ch) THEN Bound(TRUE, m, errs)
  ELSE LET Pair(k, e) ==
             IF ~k.good THEN MapLoop(ch, i + 1, t, m, errs \o k.terrors, mapType)
             ELSE MapLoop(ch, i + 1, t,
                          IF e.good THEN SetMapIndex(m, k.val, e.val) ELSE m,
                          errs \o k.terrors \o e.terrors, mapType)
       IN Pair(d_unmarshal(KeyAt(ch, i), "", Key(t), Zero(Key(t)), mapType),
               d_unmarshal(ValAt(ch, i), "", Elem(t), Zero(Elem(t)), mapType))

\* decode.go 1173-1225 d.mapping.
d_mapping(n, t, cur, mapType) ==
  CASE Kind(t) = "Struct" -> d_mappingStruct(n, t, cur, mapType)
    [] Kind(t) = "Slice" -> d_mappingSlice(n, t)
    [] Kind(t) = "Map" ->
         MapLoop(n.children, 1, t, IF cur = Nil THEN MapV({}) ELSE cur, <<>>,
                 IF t = MapIfaceT THEN t ELSE mapType)
    [] Kind(t) = "Interface" /\ Kind(mapType) = "Map" ->
         MapLoop(n.children, 1, mapType, MapV({}), <<>>, mapType)
    [] Kind(t) = "Interface" -> d_mappingSlice(n, mapType)
    [] OTHER -> Bound(FALSE, cur, terror(n, ini_MAP_TAG, t))

\* decode.go 1243-1253, the loop of d.mappingSlice.
SliceLoop(ch, i, items, errs) ==
  IF i > Pairs(ch) THEN Bound(TRUE, SliceV(items), errs)
  ELSE LET Pair(k, v) ==
             IF ~k.good THEN SliceLoop(ch, i + 1, items, errs \o k.terrors)
             ELSE SliceLoop(ch, i + 1,
                            IF v.good THEN Append(items, Item(k.val, v.val)) ELSE items,
                            errs \o k.terrors \o v.terrors)
       IN Pair(d_unmarshal(KeyAt(ch, i), "", IfaceT, Nil, MapSliceT),
               d_unmarshal(ValAt(ch, i), "", IfaceT, Nil, MapSliceT))

\* decode.go 1232-1257 d.mappingSlice; t is MapSlice, the one slice type.
d_mappingSlice(n, t) == SliceLoop(n.children, 1, <<>>, <<>>)

\* decode.go 1266-1280 and 1029-1043, the loop over the pairs of a mapping
\* that is bound to the fields of a struct.
StructLoop(ch, i, st, errs, mapType) ==
  IF i > Pairs(ch) THEN Bound(TRUE, st, errs)
  ELSE LET Set(name, f, e) ==
             StructLoop(ch, i + 1, SetField(st, f, e.val),
                        errs \o name.terrors \o e.terrors, mapType)
           Pair(name) ==
             IF ~name.good \/ name.val.str \notin DOMAIN FieldsMap
             THEN StructLoop(ch, i + 1, st, errs \o name.terrors, mapType)
             ELSE Set(name, name.val.str,
                      d_unmarshal(ValAt(ch, i), "", FieldsMap[name.val.str],
                                  Field(st, name.val.str), mapType))
       IN Pair(d_unmarshal(KeyAt(ch, i), "", StringT, StrV(""), mapType))

\* decode.go 1259-1281 d.mappingStruct.
d_mappingStruct(n, t, cur, mapType) == StructLoop(n.children, 1, cur, <<>>, mapType)

\* What a call gives that ends in a run-time panic.
Panicked(v, errs) == [good |-> FALSE, val |-> v, terrors |-> errs, panic |-> TRUE]

\* A decoder for which no section is the default section.
IsDefault_never(n) == FALSE

\* decode.go 1030, 1075, 1144: the key node of the default section.
IsDefault(n) == n.value = DEFAULT_SECTION

RECURSIVE DocumentMapLoop(_, _, _, _, _)
\* decode.go 1132-1151, the loop of d.document over the sections of ch for a
\* map: the pairs of the default section go into the map itself.
DocumentMapLoop(ch, i, t, m, errs) ==
  IF i > Pairs(ch) THEN Bound(TRUE, m, errs)
  ELSE LET Section(k, e) ==
             IF ~k.good THEN DocumentMapLoop(ch, i + 1, t, m, errs \o k.terrors)
             ELSE IF IsDefault(KeyAt(ch, i))
                  THEN DocumentMapLoop(ch, i + 1, t, e.val, errs \o k.terrors \o e.terrors)
                  ELSE DocumentMapLoop(ch, i + 1, t,
                                       IF e.good THEN SetMapIndex(m, k.val, e.val) ELSE m,
                                       errs \o k.terrors \o e.terrors)
       IN Section(d_unmarshal(KeyAt(ch, i), ini_STR_TAG, Key(t), Zero(Key(t)), MapIfaceT),
                  d_unmarshal(ValAt(ch, i), "",
                              IF IsDefault(KeyAt(ch, i)) THEN t ELSE Elem(t),
                              IF IsDefault(KeyAt(ch, i)) THEN m ELSE Zero(Elem(t)),
                              MapIfaceT))

RECURSIVE DocumentStructLoop(_, _, _, _)
\* decode.go 1024-1057, the loop of d.document over the sections of ch for a
\* struct: the pairs of the default section go to the fields of the struct
\* itself.
DocumentStructLoop(ch, i, st, errs) ==
  IF i > Pairs(ch) THEN Bound(TRUE, st, errs)
  ELSE LET Own(k, own) ==
             DocumentStructLoop(ch, i + 1, own.val, errs \o k.terrors \o own.terrors)
           Set(k, f, e) ==
             DocumentStructLoop(ch, i + 1, SetField(st, f, e.val),
                                errs \o k.terrors \o e.terrors)
           Section(k) ==
             IF ~k.good THEN DocumentStructLoop(ch, i + 1, st, errs \o k.terrors)
             ELSE IF IsDefault(KeyAt(ch, i))
                  THEN Own(k, StructLoop(ValAt(ch, i).children, 1, st, <<>>, MapIfaceT))
                  ELSE IF k.val.str \notin DOMAIN FieldsMap
                       THEN DocumentStructLoop(ch, i + 1, st, errs \o k.terrors)
                       ELSE Set(k, k.val.str,
                                d_unmarshal(ValAt(ch, i), "", FieldsMap[k.val.str],
                                            Field(st, k.val.str), MapIfaceT))
       IN Section(d_unmarshal(KeyAt(ch, i), ini_STR_TAG, StringT, StrV(""), MapIfaceT))

RECURSIVE DefaultSliceLoop(_, _, _, _, _)
\* decode.go 1076-1087, the inner loop of d.document for a MapSlice over the
\* pairs of the default section, which is ch[2 * i]: for its j-th pair the key
\* is bound from n.children[j], the (2 * j - 1)-th child of the document, and
\* the value from n.children[i+1], the default section itself.  An index
\* past the children of the document is a run-time panic.
DefaultSliceLoop(ch, i, j, items, errs) ==
  IF j > Pairs(ValAt(ch, i).children) THEN Bound(TRUE, SliceV(items), errs)
  ELSE IF 2 * j - 1 > Len(ch) THEN Panicked(SliceV(items), errs)
  ELSE LET Pair(k, v) ==
             IF ~k.good THEN DefaultSliceLoop(ch, i, j + 1, items, errs \o k.terrors)
             ELSE DefaultSliceLoop(ch, i, j + 1,
                                   IF v.good THEN Append(items, Item(k.val, v.val))
                                   ELSE items,
                                   errs \o k.terrors \o v.terrors)
       IN Pair(d_unmarshal(ch[2 * j - 1], ini_STR_TAG, IfaceT, Nil, MapSliceT),
               d_unmarshal(ValAt(ch, i), "", IfaceT, Nil, MapSliceT))

RECURSIVE DocumentSliceLoop(_, _, _, _)
\* decode.go 1068-1094, the loop of d.document over the sections of ch for a
\* MapSlice.
DocumentSliceLoop(ch, i, items, errs) ==
  IF i > Pairs(ch) THEN Bound(TRUE, SliceV(items), errs)
  ELSE LET Own(k, own) ==
             IF own.panic THEN Panicked(own.val, errs \o k.terrors \o own.terrors)
             ELSE DocumentSliceLoop(ch, i + 1, own.val.items,
                                    errs \o k.terrors \o own.terrors)
           Other(k, v) ==
             DocumentSliceLoop(ch, i + 1,
                               IF v.good THEN Append(items, Item(k.val, v.val)) ELSE items,
                               errs \o k.terrors \o v.terrors)
           Section(k) ==
             IF ~k.good THEN DocumentSliceLoop(ch, i + 1, items, errs \o k.terrors)
             ELSE IF IsDefault(KeyAt(ch, i))
                  THEN Own(k, DefaultSliceLoop(ch, i, 1, items, <<>>))
                  ELSE Other(k, d_unmarshal(ValAt(ch, i), "", IfaceT, Nil, MapSliceT))
       IN Section(d_unmarshal(KeyAt(ch, i), ini_STR_TAG, IfaceT, Nil, MapSliceT))

\* decode.go 1015-1157 d.document: the children ch of the document node into
\* a destination of type t that holds cur.
d_document(ch, t, cur) ==
  IF Len(ch) = 0 THEN Bound(FALSE, cur, <<>>)
  ELSE CASE Kind(t) = "Struct" -> DocumentStructLoop(ch, 1, cur, <<>>)
         [] Kind(t) = "Slice" -> DocumentSliceLoop(ch, 1, <<>>, <<>>)
         [] Kind(t) = "Map" ->
              DocumentMapLoop(ch, 1, t, IF cur = Nil THEN MapV({}) ELSE cur, <<>>)
         [] OTHER -> Bound(FALSE, cur, terror(NoNode, ini_MAP_TAG, t))

\* What the caller's destination of type t holds before the call: a made
\* map, a nil MapSlice, a zero struct.
Made(t) == IF Kind(t) = "Map" THEN MapV({}) ELSE Zero(t)

(***************************************************************************)
(* The cache of struct field info (ini.go 116-188), which the calls of     *)
(* Unmarshal that run at the same time share.                              *)
(***************************************************************************)
\* The goroutines that call Unmarshal, and the calls they make in all.
NumGoroutines == 2

MaxCalls == 3

Goroutines == 1..NumGoroutines

\* Struct types beside StructT: one with a tagged field, a private field and
\* a field the tag "-" leaves out; one whose tag repeats the key of a field.
\* A tag stands between single quotes.
TaggedT == "struct{X int 'ini:a'; y int; Z int 'ini:-'; W int}"

DupT == "struct{A int; B int 'ini:a'}"

StructTypes == {StructT, TaggedT, DupT}

\* reflect.StructField: Name, the value of the tag, and whether PkgPath is
\* empty (the field is exported).
StructField(name, tag, exported) == [Name |-> name, Tag |-> tag, exported |-> exported]

\* st.Field(i) for i in 0..NumField-1, as a sequence.
Fields(t) ==
  CASE t = StructT ->
         <<StructField("A", "", TRUE), StructField("B", "", TRUE), StructField("S", "", TRUE)>>
    [] t = TaggedT ->
         <<StructField("X", "a", TRUE), StructField("y", "", FALSE),
           StructField("Z", "-", TRUE), StructField("W", "", TRUE)>>
    [] t = DupT -> <<StructField("A", "", TRUE), StructField("B", "a", TRUE)>>

\* strings.ToLower on the names of the exported fields.
ToLower == [A |-> "a", B |-> "b", S |-> "s", W |-> "w", X |-> "x", Z |-> "z"]

fieldInfo(key, num) == [Key |-> key, Num |-> num]

\* type structInfo: FieldsMap as the set of its values, which has one
\* fieldInfo per key, and FieldsList.
structInfo(fieldsMap, fieldsList) == [FieldsMap |-> fieldsMap, FieldsList |-> fieldsList]

\* The nil *structInfo.
NilInfo == structInfo({}, <<>>)

\* What getStructInfo returns: sinfo and the message of err ("" for nil).
Info(sinfo, msg) == [sinfo |-> sinfo, err |-> msg]

\* The message of the error for a key that two fields of st share.
Duplicated(key, st) == "Duplicated key '" \o key \o "' in struct " \o st

RECURSIVE FieldsLoop(_, _, _, _)
\* ini.go 150-181, the loop of getStructInfo over the fields of st from the
\* i-th on (Num is i - 1).
FieldsLoop(st, i, fieldsMap, fieldsList) ==
  IF i > Len(Fields(st)) THEN Info(structInfo(fieldsMap, fieldsList), "")
  ELSE LET field == Fields(st)[i]
           key == IF field.Tag # "" THEN field.Tag ELSE ToLower[field.Name]
           info == fieldInfo(key, i - 1)
       IN IF ~field.exported \/ field.Tag = "-"
          THEN FieldsLoop(st, i + 1, fieldsMap, fieldsList)
          ELSE IF key \in {f.Key : f \in fieldsMap}
               THEN Info(NilInfo, Duplicated(key, st))
               ELSE FieldsLoop(st, i + 1, fieldsMap \cup {info}, Append(fieldsList, info))

\* An entry of structMap: absent, or the info stored for the type.
NotCached == [found |-> FALSE, sinfo |-> NilInfo]

Cached(sinfo) == [found |-> TRUE, sinfo |-> sinfo]

\* sync.RWMutex: the goroutines that hold it for reading and the one that
\* holds it for writing (0: none).
RWMutex(readers, writer) == [readers |-> readers, writer |-> writer]

Unlocked == RWMutex({}, 0)

\* A read lock that is granted while a writer holds the mutex.
CanRLock_always(m) == TRUE

\* RLock returns when no writer holds the mutex, Lock when nobody holds it.
CanRLock(m) == m.writer = 0

CanLock(m) == m.writer = 0 /\ m.readers = {}

\* A goroutine's call of Unmarshal: where it stands, its decoder d and parser
\* p, the locals st, sinfo and found of getStructInfo, and the error it
\* returns.
Call(at, d, p, st, sinfo, found, msg) ==
  [pc |-> at, d |-> d, p |-> p, st |-> st, sinfo |-> sinfo, found |-> found, err |-> msg]

NoCall == Call("idle", 0, 0, "", NilInfo, FALSE, "")

\* parser.tokens, a slice with its elements and its capacity, and
\* parser.tokens_head, the index of the next token to be parsed.
Queue(ts, head, cap) == [tokens |-> ts, tokens_head |-> head, cap |-> cap]

\* append(parser.tokens, token) with no room left: the capacity of the new
\* array, which the runtime doubles for a slice of this size.
Grown(cap) == IF cap = 0 THEN 1 ELSE 2 * cap

\* The move of the queue with parser.tokens_head left where it was.
Compacted_head_kept(q) ==
  IF q.tokens_head > 0 /\ Len(q.tokens) = q.cap
  THEN Queue(SubSeq(q.tokens, q.tokens_head + 1, Len(q.tokens)), q.tokens_head, q.cap)
  ELSE q

\* apic.go 12-17: the queue is moved to the start of the array.
Compacted(q) ==
  IF q.tokens_head > 0 /\ Len(q.tokens) = q.cap
  THEN Queue(SubSeq(q.tokens, q.tokens_head + 1, Len(q.tokens)), 0, q.cap)
  ELSE q

\* ini_insert_token(parser, -1, token) (apic.go 8-25): the token is appended.
ini_insert_token(q, token) ==
  LET Appended(c) ==
        Queue(Append(c.tokens, token), c.tokens_head,
              IF Len(c.tokens) = c.cap THEN Grown(c.cap) ELSE c.cap)
  IN Appended(Compacted(q))

\* The calls of ini_insert_token one fetcher makes for the tokens ts.
RECURSIVE InsertTokens(_, _)
InsertTokens(q, ts) ==
  IF ts = <<>> THEN q
  ELSE CHOOSE r \in {InsertTokens(ini_insert_token(p, Head(ts)), Tail(ts)) : p \in {q}} : TRUE

\* skip_token (part_006 19-24), n times: parser.tokens_head++.
SkipTokens(q, n) == [q EXCEPT !.tokens_head = @ + n]

\* The tokens the step's fetcher appends.
Fetched == SubSeq(tokens', Len(tokens) + 1, Len(tokens'))

scanner == <<buffer, nlines, eof, document_start_produced, column, scan, h_fetch>>

parserv == <<state, states, error, problem, problem_mark, h_events, header>>

builder == <<pc, doc, keyNode, nextNode, thisNode, path, val, h_assign, h_merge, h_doc,
          out, dst, bound, terrors>>

cache == <<structMap, fieldMapMutex, call, objects>>

vars == <<buffer, nlines, eof, document_start_produced, column, scan, h_fetch, tokens,
          queue, fetch_failed,
          state, states, error, problem, problem_mark, h_events, header, event, skipping,
          pc, doc, keyNode, nextNode, thisNode, path, val, err, h_assign, h_merge, h_doc,
                 out, dst, bound, terrors, cache>>

Init ==
  /\ buffer = <<>>
  /\ nlines = 0
  /\ eof = FALSE
  /\ document_start_produced = FALSE
  /\ column = 0
  /\ scan = "idle"
  /\ h_fetch = NoFetchError
  /\ tokens = <<>>
  /\ queue = Queue(<<>>, 0, 0)
  /\ fetch_failed = FALSE
  /\ state = "DOCUMENT_START"
  /\ states = <<>>
  /\ error = "NO_ERROR"
  /\ problem = ""
  /\ problem_mark = 0
  /\ h_events = <<>>
  /\ header = "none"
  /\ event = NoEvent
  /\ skipping = TRUE
  /\ pc = "new"
  /\ doc = <<>>
  /\ keyNode = NoNode
  /\ nextNode = NoNode
  /\ thisNode = NoNode
  /\ path = <<>>
  /\ val = NoNode
  /\ err = NoError
  /\ h_assign = NoAssign
  /\ h_merge = NoMerge
  /\ h_doc = <<>>
  /\ out = NotWritten
  /\ dst = ""
  /\ bound = Nil
  /\ structMap = [t \in StructTypes |-> NotCached]
  /\ fieldMapMutex = Unlocked
  /\ call = [g \in Goroutines |-> NoCall]
  /\ objects = 0
  /\ terrors = <<>>

(***************************************************************************)
(* Scanner: peek_token calls ini_parser_fetch_more_tokens when the queue   *)
(* is empty, which calls the dispatcher ini_parser_fetch_next_token once.  *)
(***************************************************************************)
\* ini_parser_parse passes its entry check and the handler's peek_token finds
\* the token queue empty.
NeedToken ==
  /\ skipping
  /\ scan = "idle"
  /\ tokens = <<>>
  /\ ~fetch_failed
  /\ error = "NO_ERROR"
  /\ state # "DOCUMENT_END"

\* The lines that can stand at line n of a text: a line with an integer
\* outside the ranges, or with a remark, stands first.
LinesAt(n) ==
  {l \in Lines : l.t \in {"number", "remark", "escape", "starred", "bom"} => n = 1}

\* More input arrives: the next line of the text.
ReadLine ==
  /\ NeedToken /\ document_start_produced
  /\ buffer = <<>> /\ ~eof
  /\ nlines < MaxLines
  /\ \E l \in LinesAt(nlines + 1) : buffer' = Lexemes(l, nlines + 1)
  /\ nlines' = nlines + 1
  /\ UNCHANGED <<eof, document_start_produced, column, scan, h_fetch, tokens, queue,
                 fetch_failed, parserv, event, skipping, builder, err, cache>>

\* ini_parser_fetch_next_token 386 and the fetchers call ini_parser_update_buffer
\* when the buffer is empty; the next octets of the input are no UTF-8
\* sequence (readerc.go 138): the reader records its error and the fetch fails.
ini_parser_update_buffer ==
  /\ NeedToken
  /\ buffer = <<>> /\ ~eof
  /\ nlines < MaxLines
  /\ nlines' = nlines + 1
  /\ error' = "READER_ERROR"
  /\ problem' = "invalid leading UTF-8 octet"
  /\ fetch_failed' = TRUE
  /\ h_fetch' = FetchError(error', problem')
  /\ UNCHANGED <<buffer, eof, document_start_produced, column, scan, tokens, queue, state, states,
                 problem_mark, h_events, header, event, skipping, builder, err, cache>>

ini_parser_fetch_document_start ==
  /\ NeedToken /\ ~document_start_produced
  /\ document_start_produced' = TRUE
  /\ tokens' = Append(tokens, Token("DOCUMENT_START", ""))
  /\ queue' = InsertTokens(queue, Fetched)
  /\ UNCHANGED <<buffer, nlines, eof, column, scan, h_fetch, fetch_failed, parserv, event,
                 skipping,
                 builder, err, cache>>

\* The dispatcher finds the end of the input.
ini_parser_fetch_document_end ==
  /\ NeedToken /\ document_start_produced
  /\ buffer = <<>> /\ ~eof
  /\ eof' = TRUE
  /\ tokens' = Append(tokens, Token("DOCUMENT_END", ""))
  /\ queue' = InsertTokens(queue, Fetched)
  /\ UNCHANGED <<buffer, nlines, document_start_produced, column, scan, h_fetch, fetch_failed,
                 parserv,
                 event, skipping, builder, err, cache>>

\* The dispatcher finds the lexeme group lex next in the buffer.
Found(lex) ==
  /\ NeedToken /\ document_start_produced
  /\ buffer # <<>>
  /\ Head(buffer).lex = lex

\* skip and read (scannerc.go 228-271) advance the column with every
\* character they consume, and skip_line sets it to 0: the column after the
\* group at the head of the buffer, the line break behind the last group of
\* a line included.
Advance == IF Tail(buffer) = <<>> THEN 0 ELSE column + 1

\* The fetcher of lex consumes the group.
Dispatch(lex) == Found(lex) /\ buffer' = Tail(buffer) /\ column' = Advance

\* The dispatcher's test for a section header with the column left out.
IsSectionStart_any_column(col, lex) == lex = "["

\* ini_parser_fetch_next_token 403: a section header starts with "[" at
\* column 0.
IsSectionStart(col, lex) == col = 0 /\ lex = "["

\* The test for the start of a comment with ";" left out.
is_comment_hash_only(c) == c = "#"

\* ini_parser_scan_to_next_token 941: the characters that start a comment.
is_comment(c) == c = "#" \/ c = ";"

\* ini_parser_scan_to_next_token 921-953: a byte-order mark at column 0 is
\* skipped, by skip(), which counts it as a column; the blanks before the
\* next token are skipped, and so is a comment up to its line break, and the
\* line break.
ini_parser_scan_to_next_token ==
  /\ \/ Found("blank")
     \/ Found("comment") /\ is_comment(Head(buffer).text)
     \/ Found("bom") /\ column = 0
  /\ buffer' = Tail(buffer)
  /\ column' = Advance
  /\ UNCHANGED <<nlines, eof, document_start_produced, scan, h_fetch, tokens, queue, fetch_failed,
                 parserv, event, skipping, builder, err, cache>>

ini_parser_fetch_section_start ==
  /\ Dispatch("[")
  /\ IsSectionStart(column, Head(buffer).lex)
  /\ tokens' = tokens \o <<Token("SECTION_START", "["), Token("SCALAR", Head(buffer).text)>>
  /\ queue' = InsertTokens(queue, Fetched)
  /\ UNCHANGED <<nlines, eof, document_start_produced, scan, h_fetch, fetch_failed,
                 parserv,
                 event, skipping, builder, err, cache>>

ini_parser_fetch_section_inherit ==
  /\ Dispatch(":")
  /\ tokens' = tokens \o <<Token("SECTION_INHERIT", ":"), Token("SCALAR", Head(buffer).text)>>
  /\ queue' = InsertTokens(queue, Fetched)
  /\ UNCHANGED <<nlines, eof, document_start_produced, scan, h_fetch, fetch_failed,
                 parserv,
                 event, skipping, builder, err, cache>>

ini_parser_fetch_section_entry ==
  /\ Dispatch("]")
  /\ IF Head(buffer).brk
     THEN /\ tokens' = Append(tokens, Token("SECTION_ENTRY", "]"))
          /\ UNCHANGED <<fetch_failed, error, problem, problem_mark, h_fetch>>
     ELSE /\ error' = "SCANNER_ERROR"
          /\ problem' = "must have a line break before the first section key"
          /\ problem_mark' = mark_line
          /\ fetch_failed' = TRUE
          /\ h_fetch' = FetchError(error', problem')
          /\ UNCHANGED tokens
  /\ queue' = InsertTokens(queue, Fetched)
  /\ UNCHANGED <<nlines, eof, document_start_produced, scan, state, states, h_events, header,
                 event, skipping, builder, err, cache>>

\* scannerc.go 632-679.  A value that starts with a quote is scanned by
\* ini_parser_scan_scalar: its first iteration skips the pair of quotes
\* (694-697) and, the text behind them being neither a quote nor a line
\* break, the loop goes on.
ini_parser_fetch_value ==
  /\ Found("=")
  /\ IF Head(buffer).text = QuotesThenText
     THEN /\ tokens' = Append(tokens, Token("VALUE", "="))
          /\ buffer' = <<Lexeme("scalar", TextBehindQuotes, NoPath, TRUE)>> \o Tail(buffer)
          /\ column' = column + 1
          /\ scan' = "top"
     ELSE /\ tokens' = tokens \o <<Token("VALUE", "="), ValueToken(Head(buffer))>>
          /\ buffer' = Tail(buffer)
          /\ column' = Advance
          /\ UNCHANGED scan
  /\ queue' = InsertTokens(queue, Fetched)
  /\ UNCHANGED <<nlines, eof, document_start_produced, h_fetch, fetch_failed, parserv,
                 event, skipping, builder, err, cache>>

\* scannerc.go 686-692: the head of the loop of ini_parser_scan_scalar.  The
\* buffer is refilled, which succeeds, and the next character is not NUL.
ini_parser_scan_scalar_top ==
  /\ scan = "top"
  /\ Head(buffer).text = TextBehindQuotes
  /\ scan' = "body"
  /\ UNCHANGED <<buffer, nlines, eof, document_start_produced, column, h_fetch, tokens, queue,
                 fetch_failed, parserv, event, skipping, builder, err, cache>>

\* scannerc.go 693-861 with single set: the next character is no quote, so
\* neither branch of 694-711 runs and nothing is skipped or read; 713 does
\* not see the closing quote and 858 sees no line break: the loop repeats.
ini_parser_scan_scalar_body ==
  /\ scan = "body"
  /\ Head(buffer).text = TextBehindQuotes
  /\ scan' = "top"
  /\ UNCHANGED <<buffer, nlines, eof, document_start_produced, column, h_fetch, tokens, queue,
                 fetch_failed, parserv, event, skipping, builder, err, cache>>

\* scannerc.go 556-629, the dispatcher's last case: a key, or a "[" that is
\* no section start.  ini_parser_scan_plain_scalar (881-915) reads the text
\* up to the line break, which for a "[" is the rest of the line.
ini_parser_fetch_key ==
  /\ NeedToken /\ document_start_produced
  /\ buffer # <<>>
  /\ Head(buffer).lex \in {"key", "[", "comment"}
  /\ ~IsSectionStart(column, Head(buffer).lex)
  /\ Head(buffer).lex = "comment" => ~is_comment(Head(buffer).text)
  /\ IF Head(buffer).lex = "key" /\ CannotStart(Raw(Head(buffer), "="))
     THEN /\ error' = "SCANNER_ERROR"
          /\ problem' = cannot_start(CharAt(Raw(Head(buffer), "="), 2))
          /\ problem_mark' = mark_line
          /\ fetch_failed' = TRUE
          /\ h_fetch' = FetchError(error', problem')
          /\ UNCHANGED <<buffer, column, tokens, queue>>
     ELSE /\ IF Head(buffer).lex = "key"
             THEN /\ \E keys \in {GroupKeys(Head(buffer))} :
                       tokens' = tokens \o KeyTokens(keys, 1)
                  /\ buffer' = Tail(buffer)
                  /\ column' = Advance
             ELSE /\ tokens' = tokens \o KeyTokens(<<Text(buffer)>>, 1)
                  /\ buffer' = <<>>
                  /\ column' = 0
          /\ UNCHANGED <<fetch_failed, error, problem, problem_mark, h_fetch>>
  /\ queue' = InsertTokens(queue, Fetched)
  /\ UNCHANGED <<nlines, eof, document_start_produced, scan, state, states, h_events, header,
                 event, skipping, builder, err, cache>>

(***************************************************************************)
(* Parser: ini_parser_parse, called by p.skip(), and the handlers of its   *)
(* state machine.  A handler that returns false makes p.skip() call        *)
(* p.fail(), which ends the parse call with the parser's problem.          *)
(***************************************************************************)
\* ini_parser_parse's entry check: no events after an error or the end.
EntryCheckStops ==
  \/ error # "NO_ERROR" /\ ~fetch_failed
  \/ state = "DOCUMENT_END"

\* The handler of state st can run: its peek_token has an answer.
Handler(st) ==
  /\ skipping
  /\ scan = "idle"
  /\ ~EntryCheckStops
  /\ state = st
  /\ tokens # <<>> \/ fetch_failed

\* peek_token's answer is nil.
NilToken == fetch_failed

\* The handler returns true with event e, in state st, having skipped n tokens.
Emit(e, st, n) ==
  /\ event' = e
  /\ state' = st
  /\ tokens' = SubSeq(tokens, n + 1, Len(tokens))
  /\ queue' = SkipTokens(queue, n)
  /\ skipping' = FALSE
  /\ fetch_failed' = FALSE
  /\ h_events' = Append(h_events, e.typ)
  /\ UNCHANGED <<error, problem, problem_mark, builder, err, cache>>

\* p.fail (decode.go 656-674) after the handler returned false, n tokens
\* skipped, with parser.error e and parser.problem m.
Fail(e, m, n) ==
  /\ error' = e
  /\ problem' = m
  /\ tokens' = SubSeq(tokens, n + 1, Len(tokens))
  /\ queue' = SkipTokens(queue, n)
  /\ event' = NoEvent
  /\ skipping' = FALSE
  /\ fetch_failed' = FALSE
  /\ err' = failf(IF m # "" THEN m ELSE "unknown problem parsing INI content", "")
  /\ pc' = "failed"
  /\ UNCHANGED <<state, h_events, doc, keyNode, nextNode, thisNode, path, val, h_assign,
                 h_merge, h_doc, out, dst, bound, terrors, cache>>

\* ini_parser_set_parser_error followed by p.fail: the problem mark is the
\* start of the token the handler looked at or, with no token, parser.mark.
ParserError(m, n) ==
  /\ Fail("PARSER_ERROR", m, n)
  /\ problem_mark' = IF Len(tokens) > n THEN tokens[n + 1].line ELSE mark_line

ini_parser_parse_no_event ==
  /\ skipping
  /\ EntryCheckStops
  /\ event' = NoEvent
  /\ skipping' = FALSE
  /\ UNCHANGED <<scanner, tokens, queue, fetch_failed, parserv, builder, err, cache>>

ini_parser_parse_document_start ==
  /\ Handler("DOCUMENT_START")
  /\ IF NilToken
     THEN ParserError("did not find expected <document-start>", 0) /\ UNCHANGED states
     ELSE IF Head(tokens).typ = "DOCUMENT_START"
          THEN /\ states' = Append(states, "DOCUMENT_END")
               /\ Emit(Event("DOCUMENT_START", ""), "SECTION_FIRST_START", 1)
          ELSE ParserError("did not find expected <document-start>", 0) /\ UNCHANGED states
  /\ UNCHANGED <<scanner, header>>

\* The state on top of the stack not taken: the parser stays where it is.
top_stay(sts) == "SECTION_START"

\* part_006 107: parser.states[len(parser.states)-1], the state the parser
\* returns to.
top(sts) == sts[Len(sts)]

\* The handler without its branch for a key met before any header.
ini_parser_parse_section_start_no_implicit(first) ==
  /\ Handler(IF first THEN "SECTION_FIRST_START" ELSE "SECTION_START")
  /\ IF NilToken
     THEN /\ ParserError("did not find expected <document-end> or <section-start> or <key>", 0)
          /\ UNCHANGED <<states, header>>
     ELSE IF Head(tokens).typ = "DOCUMENT_END"
          THEN /\ states' = SubSeq(states, 1, Len(states) - 1)
               /\ Emit(Event("DOCUMENT_END", ""), top(states), 0)
               /\ UNCHANGED header
          ELSE /\ UNCHANGED states
               /\ IF Head(tokens).typ = "SECTION_START"
                  THEN IF Len(tokens) > 1 /\ tokens[2].typ = "SCALAR"
                       THEN /\ Emit(Event("SCALAR", tokens[2].value), "SECTION_INHERIT", 2)
                            /\ header' = "plain"
                       ELSE ParserError("did not find expected <scalar>", 1) /\ UNCHANGED header
                  ELSE /\ ParserError("did not find expected <section-start> or <key>", 0)
                       /\ UNCHANGED header
  /\ UNCHANGED scanner

\* The state behind the name of the implicit default section with the
\* handler of SECTION_ENTRY passed over.
ImplicitSectionState_key == "SECTION_KEY"

\* part_006 117: the state in which the name of the implicit default
\* section leaves the parser.
ImplicitSectionState == "SECTION_ENTRY"

ini_parser_parse_section_start(first) ==
  /\ Handler(IF first THEN "SECTION_FIRST_START" ELSE "SECTION_START")
  /\ IF NilToken
     THEN /\ ParserError("did not find expected <document-end> or <section-start> or <key>", 0)
          /\ UNCHANGED <<states, header>>
     ELSE IF Head(tokens).typ = "DOCUMENT_END"
          THEN /\ states' = SubSeq(states, 1, Len(states) - 1)
               /\ Emit(Event("DOCUMENT_END", ""), top(states), 0)
               /\ UNCHANGED header
          ELSE /\ UNCHANGED states
               /\ IF first /\ Head(tokens).typ = "KEY"
                  THEN /\ Emit(Event("SCALAR", DEFAULT_SECTION), ImplicitSectionState, 0)
                       /\ header' = "none"
                  ELSE IF Head(tokens).typ = "SECTION_START"
                       THEN IF Len(tokens) > 1 /\ tokens[2].typ = "SCALAR"
                            THEN /\ Emit(Event("SCALAR", tokens[2].value), "SECTION_INHERIT", 2)
                                 /\ header' = "plain"
                            ELSE ParserError("did not find expected <scalar>", 1) /\ UNCHANGED header
                       ELSE /\ ParserError("did not find expected <section-start> or <key>", 0)
                            /\ UNCHANGED header
  /\ UNCHANGED scanner

\* The Inherit event's name left empty when no ":" token follows.
inherit_key_empty(toks) ==
  IF Head(toks).typ = "SECTION_INHERIT" THEN toks[2].value ELSE ""

\* ini_parser_parse_section_inherit 159-171: the name the Inherit event
\* carries, given the unread tokens.
inherit_key(toks) ==
  IF Head(toks).typ = "SECTION_INHERIT" THEN toks[2].value ELSE DEFAULT_SECTION

\* The handler producing the Inherit event only for a ":" token, and going on
\* as ini_parser_parse_section_entry does otherwise.
ini_parser_parse_section_inherit_colon_only ==
  /\ Handler("SECTION_INHERIT")
  /\ IF NilToken
     THEN Fail(error, problem, 0) /\ UNCHANGED <<problem_mark, header>>
     ELSE IF Head(tokens).typ = "SECTION_INHERIT"
          THEN IF Len(tokens) > 1 /\ tokens[2].typ = "SCALAR"
               THEN /\ Emit(Event("SECTION_INHERIT", tokens[2].value), "SECTION_ENTRY", 2)
                    /\ header' = "colon"
               ELSE ParserError("did not find expected <scalar>", 1) /\ UNCHANGED header
          ELSE /\ Emit(Event("SECTION_ENTRY", ""), "SECTION_KEY",
                       IF Head(tokens).typ = "SECTION_ENTRY" THEN 1 ELSE 0)
               /\ UNCHANGED header
  /\ UNCHANGED <<scanner, states>>

ini_parser_parse_section_inherit ==
  /\ Handler("SECTION_INHERIT")
  /\ IF NilToken
     THEN Fail(error, problem, 0) /\ UNCHANGED <<problem_mark, header>>
     ELSE IF Head(tokens).typ = "SECTION_INHERIT"
          THEN IF Len(tokens) > 1 /\ tokens[2].typ = "SCALAR"
               THEN /\ Emit(Event("SECTION_INHERIT", inherit_key(tokens)), "SECTION_ENTRY", 2)
                    /\ header' = "colon"
               ELSE ParserError("did not find expected <scalar>", 1) /\ UNCHANGED header
          ELSE /\ Emit(Event("SECTION_INHERIT", inherit_key(tokens)), "SECTION_ENTRY", 0)
               /\ UNCHANGED header
  /\ UNCHANGED <<scanner, states>>

ini_parser_parse_section_entry ==
  /\ Handler("SECTION_ENTRY")
  /\ IF ~NilToken /\ Head(tokens).typ = "SECTION_ENTRY"
     THEN Emit(Event("SECTION_ENTRY", ""), "SECTION_KEY", 1)
     ELSE Emit(Event("SECTION_ENTRY", ""), "SECTION_KEY", 0)
  /\ UNCHANGED <<scanner, states, header>>

ini_parser_parse_key ==
  /\ Handler("SECTION_KEY")
  /\ IF NilToken
     THEN ParserError("did not find expected <key> or <section-start>", 0)
     ELSE IF Head(tokens).typ = "KEY"
          THEN IF Len(tokens) > 1 /\ tokens[2].typ = "SCALAR"
               THEN Emit(Event("SCALAR", tokens[2].value), "SECTION_VALUE", 2)
               ELSE ParserError("did not find expected <scalar>", 1)
          ELSE IF Head(tokens).typ # "SECTION_START" /\ Head(tokens).typ # "DOCUMENT_END"
               THEN ParserError("did not find expected <key> or <section-start>", 0)
               ELSE Emit(Event("SECTION_ENTRY", ""), "SECTION_START", 0)
  /\ UNCHANGED <<scanner, states, header>>

ini_parser_parse_value ==
  /\ Handler("SECTION_VALUE")
  /\ IF NilToken
     THEN ParserError("did not find expected <value> or <map>", 0)
     ELSE IF Head(tokens).typ = "MAP"
          THEN Emit(Event("MAPPING", ""), "SECTION_KEY", 1)
          ELSE IF Head(tokens).typ = "VALUE"
               THEN IF Len(tokens) > 1 /\ tokens[2].typ = "SCALAR"
                    THEN Emit(Event("SCALAR", tokens[2].value), "SECTION_KEY", 2)
                    ELSE ParserError("did not find expected <scalar>", 1)
               ELSE ParserError("did not find expected <value> or <map>", 0)
  /\ UNCHANGED <<scanner, states, header>>

(***************************************************************************)
(* Tree builder (decode.go 618-905).  Every step below runs between two    *)
(* returns of p.skip(): it handles the event p.skip() delivered and, where *)
(* the code calls p.skip() again, asks for the next one.                   *)
(***************************************************************************)
\* The builder is at position at, holding an event p.skip() returned.
At(at) == pc = at /\ ~skipping

\* The step calls p.skip().
Skip == skipping' = TRUE /\ event' = event

\* The step leaves the current event in place.
Stay == UNCHANGED <<skipping, event>>

\* newParser checks the first event, then Unmarshal calls p.parse(), which
\* enters document(): the Document node, p.skip().
newParser ==
  /\ At("new")
  /\ event.typ = "DOCUMENT_START"
  /\ pc' = "document"
  /\ doc' = <<>>
  /\ Skip
  /\ UNCHANGED <<scanner, tokens, queue, fetch_failed, parserv, keyNode, nextNode,
                 thisNode, path, val, err, h_assign, h_merge, h_doc, out, dst, bound, terrors, cache>>

\* document(): the loop ends at the DocumentEnd event.
document_end ==
  /\ At("document")
  /\ event.typ = "DOCUMENT_END"
  /\ pc' = "done"
  /\ Stay
  /\ UNCHANGED <<scanner, tokens, queue, fetch_failed, parserv, doc, keyNode, nextNode,
                 thisNode, path, val, err, h_assign, h_merge, h_doc, out, dst, bound, terrors, cache>>

\* document(): keyNode := p.parse(), the scalar holding the section name.
document_key ==
  /\ At("document")
  /\ event.typ = "SCALAR"
  /\ keyNode' = scalar(event.value)
  /\ nextNode' = NoNode
  /\ pc' = "header"
  /\ h_assign' = NoAssign
  /\ h_merge' = NoMerge
  /\ Skip
  /\ UNCHANGED <<scanner, tokens, queue, fetch_failed, parserv, doc, thisNode, path, val, err,
                 h_doc, out, dst, bound, terrors, cache>>

\* document(): nextNode := p.parse() is an Inherit node.
document_inherit ==
  /\ At("header")
  /\ event.typ = "SECTION_INHERIT"
  /\ nextNode' = inherit(event.value)
  /\ pc' = "inherited"
  /\ Skip
  /\ UNCHANGED <<scanner, tokens, queue, fetch_failed, parserv, doc, keyNode, thisNode,
                 path, val, err, h_assign, h_merge, h_doc, out, dst, bound, terrors, cache>>

\* section() starts: as nextNode when no Inherit event came, as childNode
\* after one.
section_begin ==
  /\ At("header") \/ At("inherited")
  /\ event.typ = "SECTION_ENTRY"
  /\ thisNode' = node(sectionNode)
  /\ pc' = "section"
  /\ Skip
  /\ UNCHANGED <<scanner, tokens, queue, fetch_failed, parserv, doc, keyNode, nextNode,
                 path, val, err, h_assign, h_merge, h_doc, out, dst, bound, terrors, cache>>

\* section(): currentNodeKey := p.parse().
section_key ==
  /\ At("section")
  /\ event.typ = "SCALAR"
  /\ path' = <<event.value>>
  /\ pc' = "value"
  /\ Skip
  /\ UNCHANGED <<scanner, tokens, queue, fetch_failed, parserv, doc, keyNode, nextNode,
                 thisNode, val, err, h_assign, h_merge, h_doc, out, dst, bound, terrors, cache>>

\* section(): p.parse() on an event that is no node (the parser returned no
\* event after a scanner error): parse() panics, and handleErr re-panics.
section_unknown_event ==
  /\ At("section")
  /\ event.typ = "NO_EVENT"
  /\ pc' = "failed"
  /\ err' = panic("attempted to parse unknown event: ")
  /\ Stay
  /\ UNCHANGED <<scanner, tokens, queue, fetch_failed, parserv, doc, keyNode, nextNode,
                 thisNode, path, val, h_assign, h_merge, h_doc, out, dst, bound, terrors, cache>>

\* mapping() starts on a Mapping event: its node, p.skip().
mapping_begin ==
  /\ At("value")
  /\ event.typ = "MAPPING"
  /\ pc' = "mapkey"
  /\ Skip
  /\ UNCHANGED <<scanner, tokens, queue, fetch_failed, parserv, doc, keyNode, nextNode,
                 thisNode, path, val, err, h_assign, h_merge, h_doc, out, dst, bound, terrors, cache>>

\* mapping(): currentNodeKey := p.parse().
mapping_key ==
  /\ At("mapkey")
  /\ event.typ = "SCALAR"
  /\ path' = Append(path, event.value)
  /\ pc' = "value"
  /\ Skip
  /\ UNCHANGED <<scanner, tokens, queue, fetch_failed, parserv, doc, keyNode, nextNode,
                 thisNode, val, err, h_assign, h_merge, h_doc, out, dst, bound, terrors, cache>>

\* currentNodeValue := p.parse() is a scalar: its node, p.skip().
scalar_value ==
  /\ At("value")
  /\ event.typ = "SCALAR"
  /\ val' = scalar(event.value)
  /\ pc' = "assign"
  /\ Skip
  /\ UNCHANGED <<scanner, tokens, queue, fetch_failed, parserv, doc, keyNode, nextNode,
                 thisNode, path, err, h_assign, h_merge, h_doc, out, dst, bound, terrors, cache>>

\* After the last p.skip() of the entry returned, the nested mapping() calls
\* return and section() assigns the pair to its node.
section ==
  /\ At("assign")
  /\ thisNode' = [thisNode EXCEPT !.children =
                    section_assign(thisNode.children, scalar(path[1]),
                                   value_chain(path, 2, val))]
  /\ h_assign' = [made |-> TRUE, before |-> thisNode.children, path |-> path, val |-> val]
  /\ path' = <<>>
  /\ val' = NoNode
  /\ pc' = "section"
  /\ Stay
  /\ UNCHANGED <<scanner, tokens, queue, fetch_failed, parserv, doc, keyNode, nextNode, err,
                 h_merge, h_doc, out, dst, bound, terrors, cache>>

\* The existence test of parser.document without the exception made for the
\* reserved name.
InheritMissing_no_default(docChildren, inheritValue) ==
  InheritMatches(docChildren, inheritValue) = {}

\* The existence test of parser.document with its sense inverted.
InheritMissing_inverted(docChildren, inheritValue) ==
  InheritMatches(docChildren, inheritValue) # {} /\ inheritValue # DEFAULT_SECTION

\* parser.document 773-783: the lookup found no section of that name, and the
\* name is not the reserved one.
InheritMissing(docChildren, inheritValue) ==
  InheritMatches(docChildren, inheritValue) = {} /\ inheritValue # DEFAULT_SECTION

\* section() returns at the closing SectionEntry event; document() resolves
\* the inheritance, appends the pair and calls p.skip().
document ==
  /\ At("section")
  /\ event.typ = "SECTION_ENTRY"
  /\ IF nextNode.kind = inheritNode
     THEN IF InheritMissing(doc, nextNode.value)
          THEN /\ err' = failf("inherit section '%s' does not exists", nextNode.value)
               /\ pc' = "failed"
               /\ Stay
               /\ UNCHANGED <<doc, thisNode, h_merge, h_doc>>
          ELSE /\ thisNode' = inherit_section(doc, thisNode, nextNode.value)
               /\ doc' = doc \o <<keyNode, thisNode'>>
               /\ h_merge' =
                    [made |-> TRUE, child |-> thisNode,
                     parent |-> IF InheritMatches(doc, nextNode.value) = {}
                                THEN NoNode
                                ELSE ValAt(doc, Min(InheritMatches(doc, nextNode.value))),
                     found |-> InheritMatches(doc, nextNode.value) # {},
                     name |-> nextNode.value, header |-> header]
               /\ h_doc' = Append(h_doc,
                    [own |-> thisNode.children,
                     from |-> IF InheritMatches(doc, nextNode.value) = {} THEN 0
                              ELSE Min(InheritMatches(doc, nextNode.value))])
               /\ pc' = "document"
               /\ Skip
               /\ UNCHANGED err
     ELSE /\ doc' = doc \o <<keyNode, thisNode>>
          /\ pc' = "document"
          /\ Skip
          /\ h_doc' = Append(h_doc, [own |-> thisNode.children, from |-> 0])
          /\ UNCHANGED <<err, thisNode, h_merge>>
  /\ UNCHANGED <<scanner, tokens, queue, fetch_failed, parserv, keyNode, nextNode, path, val, out, dst, bound, terrors, cache,
                 h_assign>>

\* Unmarshal (ini.go 58-66): p.parse() has returned the document node, which
\* d.unmarshal binds to the destination.
unmarshal ==
  /\ pc = "done"
  /\ \E t \in DestTypes :
       \E r \in {d_document(doc, t, Made(t))} :
          /\ dst' = t
          /\ bound' = r.val
          /\ terrors' = r.terrors
          /\ pc' = IF r.panic THEN "panicked" ELSE "returned"
          /\ err' = IF r.panic THEN panic("index out of range")
                    ELSE IF r.terrors # <<>> THEN TypeError(r.terrors)
                    ELSE err
  /\ out' = Written([i \in 1..Len(doc) |-> Plain(doc[i])])
  /\ Stay
  /\ UNCHANGED <<scanner, tokens, queue, fetch_failed, parserv, doc, keyNode, nextNode,
                 thisNode, path, val, h_assign, h_merge, h_doc, cache>>

Next ==
  \/ ReadLine
  \/ ini_parser_update_buffer
  \/ ini_parser_scan_to_next_token
  \/ ini_parser_fetch_document_start
  \/ ini_parser_fetch_document_end
  \/ ini_parser_fetch_section_start
  \/ ini_parser_fetch_section_inherit
  \/ ini_parser_fetch_section_entry
  \/ ini_parser_fetch_value
  \/ ini_parser_fetch_key
  \/ ini_parser_scan_scalar_top
  \/ ini_parser_scan_scalar_body
  \/ ini_parser_parse_no_event
  \/ ini_parser_parse_document_start
  \/ ini_parser_parse_section_start(TRUE)
  \/ ini_parser_parse_section_start(FALSE)
  \/ ini_parser_parse_section_inherit
  \/ ini_parser_parse_section_entry
  \/ ini_parser_parse_key
  \/ ini_parser_parse_value
  \/ newParser
  \/ document_end
  \/ document_key
  \/ document_inherit
  \/ section_begin
  \/ section_key
  \/ section_unknown_event
  \/ mapping_begin
  \/ mapping_key
  \/ scalar_value
  \/ section
  \/ document
  \/ unmarshal

Spec == Init /\ [][Next]_vars

\* A parse call is one sequential run of Unmarshal: whenever a step of the
\* code can be taken, one is taken.
FairSpec == Spec /\ WF_vars(Next)

(***************************************************************************)
(* Calls of Unmarshal on several goroutines, each with a struct as its     *)
(* destination: the steps of getStructInfo (ini.go 141-188), one action    *)
(* per access to the mutex or to the cache.                                *)
(***************************************************************************)
\* What the calls leave alone: the state of the one call followed above.
pipeline == <<scanner, tokens, queue, fetch_failed, parserv, event, skipping, builder, err>>

\* Goroutine g stands at position at.
Stands(g, at) == call[g].pc = at

\* Goroutine g moves to position at.
Goto(g, at) == call' = [call EXCEPT ![g].pc = at]

\* ini.go 53-66 Unmarshal: a new decoder and a new parser, the parse, and
\* d.unmarshal, whose d.document asks for the info of the destination type
\* (decode.go 1020).
Unmarshal ==
  \E g \in Goroutines, st \in StructTypes :
    /\ Stands(g, "idle")
    /\ objects < 2 * MaxCalls
    /\ objects' = objects + 2
    /\ call' = [call EXCEPT ![g] = Call("RLock", objects + 1, objects + 2, st, NilInfo,
                                         FALSE, "")]
    /\ UNCHANGED <<structMap, fieldMapMutex, pipeline>>

\* ini.go 142.
fieldMapMutex_RLock ==
  \E g \in Goroutines :
    /\ Stands(g, "RLock")
    /\ CanRLock(fieldMapMutex)
    /\ fieldMapMutex' = [fieldMapMutex EXCEPT !.readers = @ \cup {g}]
    /\ Goto(g, "load")
    /\ UNCHANGED <<structMap, objects, pipeline>>

\* ini.go 143: sinfo, found := structMap[st].
structMap_load ==
  \E g \in Goroutines :
    /\ Stands(g, "load")
    /\ call' = [call EXCEPT ![g].pc = "RUnlock",
                            ![g].sinfo = structMap[call[g].st].sinfo,
                            ![g].found = structMap[call[g].st].found]
    /\ UNCHANGED <<structMap, fieldMapMutex, objects, pipeline>>

\* ini.go 144-147: the lock is released; an info that was found is returned.
fieldMapMutex_RUnlock ==
  \E g \in Goroutines :
    /\ Stands(g, "RUnlock")
    /\ fieldMapMutex' = [fieldMapMutex EXCEPT !.readers = @ \ {g}]
    /\ Goto(g, IF call[g].found THEN "return" ELSE "build")
    /\ UNCHANGED <<structMap, objects, pipeline>>

\* ini.go 149-183: the info is built from the fields of the type; a key that
\* two fields share is an error, returned with no info.
getStructInfo_build ==
  \E g \in Goroutines :
    /\ Stands(g, "build")
    /\ LET r == FieldsLoop(call[g].st, 1, {}, <<>>)
       IN call' = [call EXCEPT ![g].pc = IF r.err # "" THEN "return" ELSE "Lock",
                               ![g].sinfo = r.sinfo,
                               ![g].err = r.err]
    /\ UNCHANGED <<structMap, fieldMapMutex, objects, pipeline>>

\* ini.go 185.
fieldMapMutex_Lock ==
  \E g \in Goroutines :
    /\ Stands(g, "Lock")
    /\ CanLock(fieldMapMutex)
    /\ fieldMapMutex' = [fieldMapMutex EXCEPT !.writer = g]
    /\ Goto(g, "store")
    /\ UNCHANGED <<structMap, objects, pipeline>>

\* ini.go 186: structMap[st] = sinfo.
structMap_store ==
  \E g \in Goroutines :
    /\ Stands(g, "store")
    /\ structMap' = [structMap EXCEPT ![call[g].st] = Cached(call[g].sinfo)]
    /\ Goto(g, "Unlock")
    /\ UNCHANGED <<fieldMapMutex, objects, pipeline>>

\* ini.go 187.
fieldMapMutex_Unlock ==
  \E g \in Goroutines :
    /\ Stands(g, "Unlock")
    /\ fieldMapMutex' = [fieldMapMutex EXCEPT !.writer = 0]
    /\ Goto(g, "return")
    /\ UNCHANGED <<structMap, objects, pipeline>>

\* getStructInfo returns sinfo and err, and the call of Unmarshal ends.
getStructInfo_return ==
  \E g \in Goroutines :
    /\ Stands(g, "return")
    /\ call' = [call EXCEPT ![g] = NoCall]
    /\ UNCHANGED <<structMap, fieldMapMutex, objects, pipeline>>

CacheNext ==
  \/ Unmarshal
  \/ fieldMapMutex_RLock
  \/ structMap_load
  \/ fieldMapMutex_RUnlock
  \/ getStructInfo_build
  \/ fieldMapMutex_Lock
  \/ structMap_store
  \/ fieldMapMutex_Unlock
  \/ getStructInfo_return

CacheSpec == Init /\ [][CacheNext]_vars

(***************************************************************************)
(* Reading the tree: the operators the properties below are stated with.   *)
(***************************************************************************)
HasKey(ch, k) == \E p \in 1..Pairs(ch) : KeyAt(ch, p).value = k

KeyCount(ch, k) == Cardinality({p \in 1..Pairs(ch) : KeyAt(ch, p).value = k})

KeysOf(ch) == [p \in 1..Pairs(ch) |-> KeyAt(ch, p).value]

\* The value of the first pair of ch whose key is k.
Child(ch, k) == ValAt(ch, Min({p \in 1..Pairs(ch) : KeyAt(ch, p).value = k}))

\* The node a key path leads to from node n, NoNode when a key is missing.
RECURSIVE NodeAt(_, _)
NodeAt(n, q) ==
  IF q = <<>> THEN n
  ELSE IF HasKey(n.children, Head(q))
       THEN NodeAt(Child(n.children, Head(q)), Tail(q))
       ELSE NoNode

\* Every key path of node n.
RECURSIVE NodePaths(_)
NodePaths(n) ==
  UNION {{<<KeyAt(n.children, p).value>>}
         \cup {<<KeyAt(n.children, p).value>> \o q : q \in NodePaths(ValAt(n.children, p))}
         : p \in 1..Pairs(n.children)}

Prefix(q, i) == SubSeq(q, 1, i)

\* The section as it was before the last assignment, and whether that
\* assignment is the last thing done to the section.
BeforeNode == [node(sectionNode) EXCEPT !.children = h_assign.before]

Assigned == h_assign.made /\ ~h_merge.made

\* The kind the assignment gives the node at the first i segments of its path.
NewKind(i) == IF i = Len(h_assign.path) THEN scalarNode ELSE mappingNode

\* The first i - 1 segments of the assigned path led to mappings before.
SharedPrefix(i) ==
  \A j \in 1..(i - 1) : NodeAt(BeforeNode, Prefix(h_assign.path, j)).kind = mappingNode

(***************************************************************************)
(* Assignment within one section (parser.section).                         *)
(***************************************************************************)

\* C1: when a section assigns a scalar to a key path that already holds a
\* scalar in that section, the path holds the newly assigned value afterwards
\* and its key appears once.
C1_LastScalarWins ==
  (Assigned /\ NodeAt(BeforeNode, h_assign.path).kind = scalarNode)
    => /\ Plain(NodeAt(thisNode, h_assign.path)) = Plain(h_assign.val)
       /\ KeyCount(thisNode.children, h_assign.path[1]) = 1

\* C8: when an assignment gives a key path a value of another kind than the
\* one it holds (a scalar where a mapping is, or a mapping where a scalar
\* is), at the top level of the section or below a dotted prefix shared with
\* earlier assignments, the path holds exactly the new value afterwards.
C8_KindChangeReplaces ==
  Assigned =>
    \A i \in 1..Len(h_assign.path) :
      ( /\ SharedPrefix(i)
        /\ NodeAt(BeforeNode, Prefix(h_assign.path, i)).kind \in {scalarNode, mappingNode}
        /\ NodeAt(BeforeNode, Prefix(h_assign.path, i)).kind # NewKind(i) )
      => Plain(NodeAt(thisNode, Prefix(h_assign.path, i)))
           = Plain(value_chain(h_assign.path, i + 1, h_assign.val))

\* C8 happens: below a dotted prefix, a mapping has taken the place of a scalar.
C8_Witness ==
  /\ Assigned
  /\ \E i \in 1..Len(h_assign.path) :
       /\ SharedPrefix(i)
       /\ i >= 2
       /\ NodeAt(BeforeNode, Prefix(h_assign.path, i)).kind = scalarNode
       /\ NewKind(i) = mappingNode
       /\ NodeAt(thisNode, Prefix(h_assign.path, i)).kind = mappingNode
       /\ Plain(NodeAt(thisNode, h_assign.path)) = Plain(h_assign.val)

\* C9: assigning again to a top-level key of the section leaves the order of
\* the section's keys as it was, also when the kind of the value changes.
C9_PositionKept ==
  (Assigned /\ HasKey(h_assign.before, h_assign.path[1]))
    => KeysOf(thisNode.children) = KeysOf(h_assign.before)

\* C10: an assignment to a dotted key whose prefix already leads to a mapping
\* adds its last segment to that mapping: the pairs the mapping had under
\* other keys stay where they were with the values they had, the last
\* segment is a key of the mapping, and the top-level key still appears once.
C10_DottedKeysAccumulate ==
  (Assigned /\ Len(h_assign.path) >= 2 /\ SharedPrefix(Len(h_assign.path)))
    => LET n == Len(h_assign.path)
           mb == NodeAt(BeforeNode, Prefix(h_assign.path, n - 1)).children
           ma == NodeAt(thisNode, Prefix(h_assign.path, n - 1))
       IN /\ ma.kind = mappingNode
          /\ KeyCount(thisNode.children, h_assign.path[1]) = 1
          /\ Pairs(ma.children) >= Pairs(mb)
          /\ \A p \in 1..Pairs(mb) :
               KeyAt(mb, p).value # h_assign.path[n]
                 => /\ KeyAt(ma.children, p) = KeyAt(mb, p)
                    /\ ValAt(ma.children, p) = ValAt(mb, p)
          /\ HasKey(ma.children, h_assign.path[n])
          /\ ~HasKey(mb, h_assign.path[n])
               => Plain(Child(ma.children, h_assign.path[n])) = Plain(h_assign.val)

\* C10 happens: after the assignment the prefix's mapping holds the new key
\* beside an older one.
C10_Witness ==
  /\ Assigned
  /\ Len(h_assign.path) >= 3
  /\ SharedPrefix(Len(h_assign.path))
  /\ LET n == Len(h_assign.path)
         mb == NodeAt(BeforeNode, Prefix(h_assign.path, n - 1)).children
         ma == NodeAt(thisNode, Prefix(h_assign.path, n - 1)).children
     IN /\ ~HasKey(mb, h_assign.path[n])
        /\ Pairs(mb) >= 1
        /\ Pairs(ma) = Pairs(mb) + 1

(***************************************************************************)
(* Inheritance (parser.document, merge_node with overwrite = false).       *)
(***************************************************************************)

\* C2: after section C has inherited from section P, every key path that C
\* assigned itself leads to a node of the kind C gave it, and to C's own
\* value where that is a scalar, whatever P holds at that path.
C2_ChildValuesKept ==
  (h_merge.made /\ h_merge.found)
    => \A q \in NodePaths(h_merge.child) :
         /\ NodeAt(thisNode, q).kind = NodeAt(h_merge.child, q).kind
         /\ NodeAt(h_merge.child, q).kind = scalarNode
              => NodeAt(thisNode, q) = NodeAt(h_merge.child, q)

\* C2 happens: the parent holds a value of another kind at a path the child
\* assigned, and the child's value is the one found there after the merge.
C2_Witness ==
  /\ h_merge.made
  /\ h_merge.found
  /\ \E q \in NodePaths(h_merge.child) :
       /\ NodeAt(h_merge.parent, q).kind \in {scalarNode, mappingNode}
       /\ NodeAt(h_merge.parent, q).kind # NodeAt(h_merge.child, q).kind
       /\ NodeAt(thisNode, q) = NodeAt(h_merge.child, q)

\* C3: after section C has inherited from section P, every key of P that C
\* did not assign is a key of C, with a value equal to P's.
C3_ParentKeysCopied ==
  (h_merge.made /\ h_merge.found)
    => \A p \in 1..Pairs(h_merge.parent.children) :
         LET k == KeyAt(h_merge.parent.children, p).value
         IN ~HasKey(h_merge.child.children, k)
              => /\ KeyCount(thisNode.children, k) = 1
                 /\ Plain(Child(thisNode.children, k)) = Plain(ValAt(h_merge.parent.children, p))

\* C3 happens: the child had a key of its own and the parent one that the
\* child had not.
C3_Witness ==
  /\ h_merge.made
  /\ h_merge.found
  /\ Pairs(h_merge.child.children) >= 1
  /\ \E p \in 1..Pairs(h_merge.parent.children) :
       ~HasKey(h_merge.child.children, KeyAt(h_merge.parent.children, p).value)

\* The parent named by the current header is neither the reserved name nor
\* the name of a section of the document.
NoParent ==
  /\ nextNode.kind = inheritNode
  /\ nextNode.value # DEFAULT_SECTION
  /\ ~HasKey(doc, nextNode.value)

\* C4 as stated: a header whose parent is neither "default" nor a section
\* declared earlier is never added to the document, and the parse fails
\* with the error "inherit section '<parent>' does not exist".
C4_MissingParentError ==
  NoParent
    => /\ pc \notin {"document", "done"}
       /\ pc = "failed"
            => err = failf("inherit section '%s' does not exist", nextNode.value)

\* C4 amended: such a header is never added to the document and the parse
\* never completes; when the scanner and the parser raised no error in the
\* section's body, the parse fails with the error
\* "ini: inherit section '<parent>' does not exists".
C4_MissingParentFails ==
  NoParent
    => /\ pc \notin {"document", "done"}
       /\ (pc = "failed" /\ error = "NO_ERROR")
            => err = failf("inherit section '%s' does not exists", nextNode.value)

\* C4 happens with a forward reference: the parse failed on the missing
\* parent while the header declaring that name is the next thing scanned.
C4_Witness ==
  /\ NoParent
  /\ pc = "failed"
  /\ err = failf("inherit section '%s' does not exists", nextNode.value)
  /\ Len(tokens) >= 2
  /\ tokens[1].typ = "SECTION_START"
  /\ tokens[2].typ = "SCALAR" /\ tokens[2].value = nextNode.value

\* C5: a section whose header has no ":parent" inherits from the default
\* section: resolving its header never fails, the name resolved is
\* "default", and every key of the document's default section that the
\* section did not assign is a key of it with the default section's value,
\* while the keys it assigned keep the kind, and the scalar, it gave them.
C5_PlainHeaderInheritsDefault ==
  /\ (pc = "failed" /\ err.kind = "ini" /\ err.msg = "inherit section '%s' does not exists")
       => header = "colon"
  /\ (pc = "document" /\ skipping /\ header = "plain")
       => (h_merge.made /\ h_merge.header = "plain")
  /\ (h_merge.made /\ h_merge.header = "plain")
       => /\ h_merge.name = DEFAULT_SECTION
          /\ h_merge.found = HasKey(SubSeq(doc, 1, Len(doc) - 2), DEFAULT_SECTION)
          /\ h_merge.found =>
               LET d == Child(doc, DEFAULT_SECTION).children
                   c == h_merge.child.children
               IN \A p \in 1..Pairs(d) :
                    LET k == KeyAt(d, p).value
                    IN /\ HasKey(thisNode.children, k)
                       /\ ~HasKey(c, k)
                            => Plain(Child(thisNode.children, k)) = Plain(ValAt(d, p))
                       /\ HasKey(c, k) =>
                            /\ Child(thisNode.children, k).kind = Child(c, k).kind
                            /\ Child(c, k).kind = scalarNode
                                 => Child(thisNode.children, k) = Child(c, k)

\* C5 happens: in a text of two lines, the section with a plain header has
\* taken the key assigned before its header.
C5_Witness ==
  /\ nlines = 2
  /\ h_merge.made
  /\ h_merge.header = "plain"
  /\ h_merge.found
  /\ doc[1].value = DEFAULT_SECTION
  /\ \E k \in Keys :
       /\ HasKey(doc[2].children, k)
       /\ ~HasKey(h_merge.child.children, k)
       /\ Plain(Child(thisNode.children, k)) = Plain(Child(doc[2].children, k))

(***************************************************************************)
(* Events of a section header (ini_parser_parse_section_inherit).          *)
(***************************************************************************)

\* C6 as stated: an Inherit event is the current event only when a ":" token
\* was scanned in the header of the section.
C6_InheritOnlyWithColon ==
  event.typ = "SECTION_INHERIT" => header = "colon"

\* C6 amended: an Inherit event comes only after a bracketed header, and
\* after every one: it carries the parent's name when a ":" token was
\* scanned, and "default" when none was; the section that starts with a key
\* and no header gets none.
C6_InheritForEveryHeader ==
  /\ event.typ = "SECTION_INHERIT"
       => /\ header \in {"plain", "colon"}
          /\ header = "plain" => event.value = DEFAULT_SECTION
  /\ (pc = "header" /\ ~skipping)
       => (event.typ = "SECTION_INHERIT" <=> header # "none")
  /\ (pc = "inherited" /\ nextNode.value # DEFAULT_SECTION) => header = "colon"

\* C6 happens: the builder receives an Inherit event naming "default" for a
\* header in which no ":" was scanned.
C6_Witness ==
  /\ pc = "header"
  /\ ~skipping
  /\ event = Event("SECTION_INHERIT", DEFAULT_SECTION)
  /\ header = "plain"

(***************************************************************************)
(* The document's sections (parser.document).                              *)
(***************************************************************************)

\* C7: no two pairs of the document have the same section name.
C7_SectionNamesUnique ==
  \A p, q \in 1..Pairs(doc) :
    KeyAt(doc, p).value = KeyAt(doc, q).value => p = q

\* The keys of sequence ks that are no key of children ch, in their order.
LackingKeys(ks, ch) == SelectSeq(ks, LAMBDA k : ~HasKey(ch, k))

\* Node n holds a Mapping at every proper prefix of path q.
MappingsAlong(n, q) ==
  \A j \in 1..(Len(q) - 1) : NodeAt(n, Prefix(q, j)).kind = mappingNode

\* C11: after section C has inherited from section P, at every key path
\* where both hold a Mapping, at any depth, C's Mapping has its own keys
\* first, followed by the keys of P's Mapping that it lacked; and a path of P
\* missing in C below Mappings of C leads to a subtree equal to P's.
C11_MergeIsRecursive ==
  (h_merge.made /\ h_merge.found)
    => \A q \in NodePaths(h_merge.parent) :
         MappingsAlong(h_merge.child, q)
           => /\ ( /\ NodeAt(h_merge.parent, q).kind = mappingNode
                   /\ NodeAt(h_merge.child, q).kind = mappingNode )
                   => KeysOf(NodeAt(thisNode, q).children)
                        = KeysOf(NodeAt(h_merge.child, q).children)
                          \o LackingKeys(KeysOf(NodeAt(h_merge.parent, q).children),
                                         NodeAt(h_merge.child, q).children)
              /\ NodeAt(h_merge.child, q) = NoNode
                   => Plain(NodeAt(thisNode, q)) = Plain(NodeAt(h_merge.parent, q))

\* C11 happens: two levels down, the child's Mapping has gained an entry of
\* the parent's Mapping beside its own.
C11_Witness ==
  /\ h_merge.made
  /\ h_merge.found
  /\ \E q \in NodePaths(h_merge.parent) :
       /\ Len(q) = 3
       /\ MappingsAlong(h_merge.child, q)
       /\ NodeAt(h_merge.child, q) = NoNode
       /\ Plain(NodeAt(thisNode, q)) = Plain(NodeAt(h_merge.parent, q))
       /\ Pairs(NodeAt(thisNode, Prefix(q, 2)).children) = 2

\* C12: inheriting from the reserved name "default" never fails with the
\* missing-section error, and when the document holds no section named
\* "default" at that moment the inheriting section is added with exactly the
\* children it had before the lookup.
C12_DefaultNeverFails ==
  /\ (nextNode.kind = inheritNode /\ nextNode.value = DEFAULT_SECTION /\ pc = "failed")
       => error # "NO_ERROR"
  /\ (h_merge.made /\ h_merge.name = DEFAULT_SECTION /\ ~h_merge.found)
       => /\ thisNode = h_merge.child
          /\ ValAt(doc, Pairs(doc)) = h_merge.child

\* C12 happens: a section with keys of its own has inherited from "default"
\* while the document held no section of that name.
C12_Witness ==
  /\ h_merge.made
  /\ h_merge.name = DEFAULT_SECTION
  /\ ~h_merge.found
  /\ ~HasKey(doc, DEFAULT_SECTION)
  /\ Pairs(thisNode.children) >= 1
  /\ thisNode = h_merge.child

(***************************************************************************)
(* The implicit default section (ini_parser_parse_section_start).          *)
(***************************************************************************)

\* The builder is inside a section: between the section's name and the step
\* that adds the section to the document.
InSection == pc \in {"header", "inherited", "section", "value", "mapkey", "assign"}

\* C13: when the first token after the document start is a key, the parser
\* answers with a scalar event of value "default" and leaves the key token
\* unread; the section built from it has no Inherit node, is named "default",
\* holds every key assigned before the first header, and is the first pair
\* of the document.
C13_ImplicitDefaultSection ==
  /\ (state = "SECTION_FIRST_START" /\ tokens # <<>> /\ Head(tokens).typ = "KEY")
       => (pc = "document" /\ skipping /\ error = "NO_ERROR")
  /\ (pc = "document" /\ ~skipping /\ doc = <<>> /\ tokens # <<>>
        /\ Head(tokens).typ = "KEY")
       => (event = Event("SCALAR", "default") /\ header = "none")
  /\ (header = "none" /\ InSection)
       => (Plain(keyNode) = Plain(scalar("default")) /\ pc # "inherited" /\ doc = <<>>)
  /\ (header = "none" /\ h_assign.made)
       => HasKey(thisNode.children, h_assign.path[1])
  /\ (header = "none" /\ pc = "document" /\ doc # <<>>)
       => /\ Len(doc) = 2
          /\ Plain(doc[1]) = Plain(scalar("default"))
          /\ doc[2] = thisNode
          /\ ~h_merge.made

\* C13 happens: two keys assigned before a header are the children of the
\* document's only section, named "default", when the header arrives.
C13_Witness ==
  /\ header = "none"
  /\ pc = "document"
  /\ Len(doc) = 2
  /\ doc[1].value = "default"
  /\ doc[2] = thisNode
  /\ Pairs(thisNode.children) = 2
  /\ tokens # <<>>
  /\ Head(tokens).typ = "SECTION_START"

(***************************************************************************)
(* Inheritance across several sections.                                    *)
(***************************************************************************)

\* The children of the c-th section of the document.
Body(c) == ValAt(doc, c).children

\* C14: when the c-th section inherited from the b-th and the b-th from the
\* a-th, each resolved against the document as it was when the inheriting
\* section was added, every key of the a-th section that neither the b-th
\* nor the c-th assigned itself is a key of the c-th with the a-th's value.
C14_InheritanceTransitive ==
  /\ Len(h_doc) = Pairs(doc)
  /\ \A c \in 1..Len(h_doc) :
       /\ h_doc[c].from < c
       /\ h_doc[c].from # 0 =>
            LET b == h_doc[c].from
                a == h_doc[b].from
            IN a # 0 =>
                 \A p \in 1..Pairs(Body(a)) :
                   LET k == KeyAt(Body(a), p).value
                   IN (~HasKey(h_doc[b].own, k) /\ ~HasKey(h_doc[c].own, k))
                        => /\ KeyCount(Body(c), k) = 1
                           /\ Plain(Child(Body(c), k)) = Plain(ValAt(Body(a), p))

\* C14 happens: a section holds a key that only the parent of its parent
\* assigned.
C14_Witness ==
  \E c \in 1..Len(h_doc) :
    /\ h_doc[c].from # 0
    /\ h_doc[h_doc[c].from].from # 0
    /\ h_doc[h_doc[h_doc[c].from].from].own # <<>>
    /\ h_doc[h_doc[c].from].own = <<>>
    /\ h_doc[c].own = <<>>
    /\ Plain(ValAt(doc, c)) = Plain(ValAt(doc, h_doc[h_doc[c].from].from))

\* Every node of the subtree of n was allocated while section o was built.
RECURSIVE AllOwned(_, _)
AllOwned(n, o) ==
  /\ n.owner = o
  /\ \A i \in 1..Len(n.children) : AllOwned(n.children[i], o)

\* No node is reachable from two sections: the nodes of every section of
\* the document, and of the section under construction, were allocated for
\* that section.
OwnersSeparate ==
  /\ \A c \in 1..Pairs(doc) : AllOwned(KeyAt(doc, c), c) /\ AllOwned(ValAt(doc, c), c)
  /\ pc \in {"section", "value", "mapkey", "assign"} => AllOwned(thisNode, Building)

\* A step leaves the pairs the document already holds as they are.
BuiltSectionsKept ==
  /\ Len(doc') >= Len(doc)
  /\ \A i \in 1..Len(doc) : doc'[i] = doc[i]

\* C15: at every moment the nodes of each section were allocated for that
\* section alone, inherited content included, so that no node is shared
\* between a section and the section it inherited from; and no step changes
\* a pair the document already holds.
C15_InheritedNodesFresh == []OwnersSeparate /\ [][BuiltSectionsKept]_vars

\* C15 happens: a section has inherited a Mapping from its parent, and a
\* later section has been begun.
C15_Witness ==
  /\ Pairs(doc) >= 2
  /\ pc = "section"
  /\ \E c \in 2..Pairs(doc) :
       /\ h_doc[c].from # 0
       /\ \E p \in 1..Pairs(Body(c)) :
            /\ ~HasKey(h_doc[c].own, KeyAt(Body(c), p).value)
            /\ ValAt(Body(c), p).kind = mappingNode
            /\ Plain(ValAt(Body(c), p))
                 = Plain(Child(Body(h_doc[c].from), KeyAt(Body(c), p).value))
            /\ ValAt(Body(c), p) # Child(Body(h_doc[c].from), KeyAt(Body(c), p).value)

(***************************************************************************)
(* Sibling keys.                                                           *)
(***************************************************************************)

\* No two pairs of node n have the same key, nor of any node below it.
RECURSIVE KeysUnique(_)
KeysUnique(n) ==
  /\ \A p, q \in 1..Pairs(n.children) :
       KeyAt(n.children, p).value = KeyAt(n.children, q).value => p = q
  /\ \A p \in 1..Pairs(n.children) : KeysUnique(ValAt(n.children, p))

\* C16: in every section of the document and in the section under
\* construction, no Section or Mapping node holds two pairs with the same
\* key.
C16_SiblingKeysUnique ==
  /\ \A c \in 1..Pairs(doc) : KeysUnique(ValAt(doc, c))
  /\ KeysUnique(thisNode)

\* C16 happens: a section has inherited from a section that holds, inside
\* a Mapping, a key the section assigned inside the same Mapping, and the
\* merged Mapping holds that key once.
C16_Witness ==
  /\ h_merge.made
  /\ h_merge.found
  /\ \E q \in NodePaths(h_merge.child) \cap NodePaths(h_merge.parent) :
       /\ Len(q) = 2
       /\ KeyCount(NodeAt(thisNode, Prefix(q, 1)).children, q[2]) = 1

(***************************************************************************)
(* Termination.                                                            *)
(***************************************************************************)
\* The parse call has ended: it returned (the tree is built) or it failed.
Ended == pc \in {"done", "returned", "panicked", "failed"}

\* C17: for every finite input a parse call terminates, by exhausting the
\* input or by propagating an error.
C17_ParseTerminates == <>Ended

(***************************************************************************)
(* Errors.                                                                 *)
(***************************************************************************)
\* C18: an error recorded by the reader or by the scanner is the error the
\* parse call returns: when the call has ended, the parser's error kind and
\* problem are still the recorded ones and the error returned carries the
\* recorded message, whatever state the parser was in when the fetch failed.
C18_FetchErrorReturned ==
  (Ended /\ h_fetch # NoFetchError) =>
     /\ error = h_fetch.kind
     /\ problem = h_fetch.msg
     /\ err = failf(h_fetch.msg, "")

\* A stage has reported an error: the reader or the scanner (h_fetch), the
\* parser (parser.error), or the merge engine (failf in document()).
Reported == h_fetch # NoFetchError \/ error # "NO_ERROR" \/ (err # NoError /\ dst = "")

\* The messages of the errors reported.
ReportedMessages ==
  (IF h_fetch = NoFetchError THEN {} ELSE {h_fetch.msg})
  \cup (IF error = "NO_ERROR" THEN {} ELSE {problem})
  \cup (IF pc = "failed" /\ event.typ = "SECTION_ENTRY" /\ NoParent
        THEN {"inherit section '%s' does not exists"} ELSE {})

\* C19: when a stage has reported an error, the call fails with an error a
\* stage reported and the destination has not been written; the destination
\* is written only after the whole tree was built, with no error reported.
C19_ErrorFailsCallUnbound ==
  /\ (Ended /\ Reported) =>
        /\ pc = "failed"
        /\ err.kind = "ini"
        /\ err.msg \in ReportedMessages
        /\ out = NotWritten
  /\ out.written =>
        /\ pc \in {"returned", "panicked"} /\ eof /\ ~Reported
        /\ out.tree = [i \in 1..Len(doc) |-> Plain(doc[i])]

\* The part of C19 about the destination alone.
NothingWrittenOnError ==
  /\ Reported => out = NotWritten
  /\ out.written => pc \in {"returned", "panicked"} /\ eof

(***************************************************************************)
(* Section headers and columns.                                            *)
(***************************************************************************)
\* The step fetches a SectionStart token.
SectionStartFetched ==
  /\ tokens = <<>> /\ tokens' # <<>>
  /\ Head(tokens').typ = "SECTION_START"

\* The step finds "[" behind other characters of its line and scans it.
BracketInsideLine ==
  /\ NeedToken /\ buffer # <<>>
  /\ Head(buffer).lex = "[" /\ column # 0
  /\ tokens' # tokens

\* C20: a "[" that is not at column 0 of its line never produces a
\* SectionStart token: it is scanned as part of the key text of that line.
C20_SectionStartAtColumnZero ==
  [][/\ SectionStartFetched => column = 0
     /\ BracketInsideLine =>
          tokens' = <<Token("KEY", ""), Token("SCALAR", Text(buffer))>>]_vars

\* The header behind a blank was scanned as the key "[s]".
C20_Witness ==
  /\ column = 0 /\ buffer = <<>>
  /\ Len(tokens) = 2
  /\ tokens[1].typ = "KEY"
  /\ tokens[2].typ = "SCALAR" /\ tokens[2].value = "[s]"

\* The scanner's error for a "]" with no line break behind it.
NoLineBreak == "must have a line break before the first section key"

\* C21: when the closing "]" of a header is not followed by a line break the
\* scan fails with the error "must have a line break before the first
\* section key": the parse call ends with that error, and no token and no
\* event is produced behind the "]".
C21_NoLineBreakFails ==
  (h_fetch = FetchError("SCANNER_ERROR", NoLineBreak)) =>
     /\ tokens = <<>>
     /\ ~skipping => event.typ \notin {"SCALAR", "MAPPING"}
     /\ Ended => err = failf(NoLineBreak, "")

(***************************************************************************)
(* Parse errors.                                                           *)
(***************************************************************************)
\* p.fail (decode.go 657-666): the position put before the message.
where == IF problem_mark # 0 THEN "line " \o ToString(problem_mark) \o ": " ELSE ""

\* The token kinds the handler of state st goes on with (part_006 81-294);
\* the handlers of SECTION_INHERIT and SECTION_ENTRY go on with every kind.
Accepts(st) ==
  CASE st = "DOCUMENT_START" -> {"DOCUMENT_START"}
    [] st = "SECTION_FIRST_START" -> {"DOCUMENT_END", "KEY", "SECTION_START"}
    [] st = "SECTION_START" -> {"DOCUMENT_END", "SECTION_START"}
    [] st = "SECTION_KEY" -> {"KEY", "SECTION_START", "DOCUMENT_END"}
    [] st = "SECTION_VALUE" -> {"MAP", "VALUE"}
    [] OTHER -> {"DOCUMENT_START", "DOCUMENT_END", "SECTION_START", "SECTION_INHERIT",
                 "SECTION_ENTRY", "KEY", "MAP", "VALUE", "SCALAR"}

\* The message that names the kinds expected in state st.
Expected(st) ==
  CASE st = "DOCUMENT_START" -> "did not find expected <document-start>"
    [] st \in {"SECTION_FIRST_START", "SECTION_START"} ->
         "did not find expected <section-start> or <key>"
    [] st = "SECTION_KEY" -> "did not find expected <key> or <section-start>"
    [] st = "SECTION_VALUE" -> "did not find expected <value> or <map>"
    [] OTHER -> ""

\* The handler of the current state is about to look at a token of a kind
\* the state does not accept.
Unaccepted ==
  /\ skipping /\ scan = "idle" /\ ~EntryCheckStops
  /\ tokens # <<>>
  /\ Head(tokens).typ \notin Accepts(state)

\* C22: in every parser state a token of a kind the state does not accept
\* stops the parse with a parse error that names the expected kinds and
\* carries the position of that token; no event is emitted for the token.
C22_UnexpectedTokenError ==
  [][Unaccepted =>
       /\ pc' = "failed" /\ error' = "PARSER_ERROR"
       /\ problem' = Expected(state) /\ err' = failf(Expected(state), "")
       /\ problem_mark' = Head(tokens).line
       /\ where' = "line " \o ToString(Head(tokens).line) \o ": "
       /\ event' = NoEvent /\ tokens' = tokens]_vars

\* The same with the position left to the parser's mark: the message shows
\* the line unless it is the first.
UnexpectedTokenErrorMarked ==
  [][Unaccepted =>
       /\ pc' = "failed" /\ error' = "PARSER_ERROR"
       /\ problem' = Expected(state) /\ err' = failf(Expected(state), "")
       /\ problem_mark' = Head(tokens).line
       /\ event' = NoEvent /\ tokens' = tokens]_vars

(***************************************************************************)
(* The event stream.                                                       *)
(***************************************************************************)
\* How many events of kind t the parser has returned.
EventCount(t) == Cardinality({i \in 1..Len(h_events) : h_events[i] = t})

\* The events, as far as returned, are bracketed: DocumentStart comes first
\* and once; DocumentEnd comes once, last, when the scanner has reached the
\* end of the input and nothing but the DocumentEnd token is queued; after it
\* ini_parser_parse returns no event (part_006 30-33).
Bracketed ==
  /\ h_events # <<>> => h_events[1] = "DOCUMENT_START"
  /\ EventCount("DOCUMENT_START") <= 1
  /\ EventCount("DOCUMENT_END") <= 1
  /\ EventCount("DOCUMENT_END") = 1 =>
       /\ h_events[Len(h_events)] = "DOCUMENT_END"
       /\ eof /\ buffer = <<>>
       /\ Len(tokens) = 1 /\ Head(tokens).typ = "DOCUMENT_END"
       /\ EntryCheckStops
  /\ pc \in {"done", "returned", "panicked"} => EventCount("DOCUMENT_END") = 1

\* The reader failed on the first octets of the input, before any token.
FirstReadFailed ==
  /\ h_fetch.kind = "READER_ERROR"
  /\ state = "DOCUMENT_START"
  /\ h_events = <<>>

\* C23 as stated: for every input the event stream starts with exactly one
\* DocumentStart event; on an accepted input DocumentEnd is emitted exactly
\* once, when the token stream is exhausted, and no event follows it.
C23_EventStreamBracketed ==
  /\ Bracketed
  /\ Ended => EventCount("DOCUMENT_START") = 1

\* C23 for the inputs whose first read succeeds: the stream is bracketed as
\* above, and a parse call that ended has returned DocumentStart unless the
\* reader failed before the first token, in which case there is no event.
C23_EventStreamBracketedOnceRead ==
  /\ Bracketed
  /\ Ended => (EventCount("DOCUMENT_START") = 1 \/ FirstReadFailed)

\* An accepted input of two lines: both brackets were returned.
C23_Witness ==
  /\ pc = "done" /\ nlines = 2
  /\ h_events[1] = "DOCUMENT_START"
  /\ h_events[Len(h_events)] = "DOCUMENT_END"
  /\ EventCount("SCALAR") >= 3

(***************************************************************************)
(* C24.  Quoted and unquoted scalars.                                      *)
(***************************************************************************)
\* What a sequence of tokens says: their types and values.
Meaning(ts) == [i \in 1..Len(ts) |-> <<ts[i].typ, ts[i].value>>]

\* The tokens this step appends to the queue.

\* This step fetches a key or a value that is written in quotes and holds
\* neither a quote nor a "\".
QuotedGroupFetched ==
  /\ buffer # <<>>
  /\ Head(buffer).lex \in {"key", "="}
  /\ Head(buffer).quote # ""
  /\ Head(buffer).text \notin DOMAIN Escaped
  /\ buffer' = Tail(buffer)

\* The tokens the fetchers append for the text of group g written without
\* quotes.
PlainTokens(g) ==
  IF g.lex = "key"
  THEN KeyTokens(GroupKeys(Quoted(g, "")), 1)
  ELSE <<Token("VALUE", "="), ValueToken(Quoted(g, ""))>>

\* C24: a key or a value written in single or double quotes is fetched as
\* the tokens, types and values, of the same text written without quotes.
C24_QuotedSameAsPlain ==
  [][QuotedGroupFetched => Meaning(Fetched) = Meaning(PlainTokens(Head(buffer)))]_vars

\* A value written in double quotes on the second line has been fetched, the
\* token's value being the text between the quotes.
C24_Witness ==
  \E i \in 1..Len(tokens) :
    /\ tokens[i].typ = "SCALAR"
    /\ tokens[i].style = "DOUBLE_QUOTED"
    /\ tokens[i].value = "2"

(***************************************************************************)
(* C25.  The default section at the top level of the destination.          *)
(***************************************************************************)
\* No two sections of the document have the same name.
UniqueSections ==
  \A i, j \in 1..Pairs(doc) : KeyAt(doc, i).value = KeyAt(doc, j).value => i = j

\* The pairs of the default section, and the sections with another name.
DefaultPairs ==
  UNION {{<<i, p>> : p \in 1..Pairs(ValAt(doc, i).children)} :
           i \in {j \in 1..Pairs(doc) : KeyAt(doc, j).value = DEFAULT_SECTION}}

OtherSections == {i \in 1..Pairs(doc) : KeyAt(doc, i).value # DEFAULT_SECTION}

\* The value d.unmarshal gives a destination of type t for node n alone.
AsType(n, t) == d_unmarshal(n, "", t, Zero(t), MapIfaceT).val

\* The entries of the destination map: one for every pair of the default
\* section, one for every other section.
TopLevelEntries ==
  {Item(StrV(KeyAt(ValAt(doc, x[1]).children, x[2]).value),
        AsType(ValAt(ValAt(doc, x[1]).children, x[2]), IfaceT)) : x \in DefaultPairs}
  \cup {Item(StrV(KeyAt(doc, i).value), AsType(ValAt(doc, i), IfaceT)) : i \in OtherSections}

\* The value of the field with key f of the destination struct: bound from
\* the section named f, or else from the pair of the default section with
\* key f, or else left zero.
TopLevelField(f) ==
  IF \E i \in OtherSections : KeyAt(doc, i).value = f
  THEN AsType(ValAt(doc, CHOOSE i \in OtherSections : KeyAt(doc, i).value = f), FieldsMap[f])
  ELSE IF \E x \in DefaultPairs : KeyAt(ValAt(doc, x[1]).children, x[2]).value = f
       THEN LET x == CHOOSE y \in DefaultPairs : KeyAt(ValAt(doc, y[1]).children, y[2]).value = f
            IN AsType(ValAt(ValAt(doc, x[1]).children, x[2]), FieldsMap[f])
       ELSE Zero(FieldsMap[f])

\* C25: Unmarshal into a map or a struct binds the keys of the default
\* section at the top level of the destination and every other section as
\* one entry under its name.
C25_DefaultKeysAtTopLevel ==
  (pc = "returned" /\ UniqueSections) =>
     /\ dst = MapStringIfaceT => bound = MapV(TopLevelEntries)
     /\ dst = StructT => \A f \in DOMAIN FieldsMap : Field(bound, f) = TopLevelField(f)

\* A map was bound from a document with a key in the default section and a
\* key in another section.
C25_Witness ==
  /\ pc = "returned" /\ UniqueSections /\ dst = MapStringIfaceT
  /\ DefaultPairs # {}
  /\ \E i \in OtherSections : ValAt(doc, i).children # <<>>

(***************************************************************************)
(* C26.  Type errors do not abort the call.                                *)
(***************************************************************************)
\* The type a pair with key k of the default section is bound to in the
\* destination, "" when the destination has no place for it.
PlaceOf(k) ==
  CASE dst = StructT /\ k \in DOMAIN FieldsMap -> FieldsMap[k]
    [] dst \in {MapStringIfaceT, MapStringInt8T} -> Elem(dst)
    [] OTHER -> ""

KeyOf(x) == KeyAt(ValAt(doc, x[1]).children, x[2]).value

ValOf(x) == ValAt(ValAt(doc, x[1]).children, x[2])

\* The scalars the decoder visits that cannot be coerced: values of pairs of
\* the default section.  The pairs of other sections go to destinations of
\* interface type, which take every scalar.
FailedScalars ==
  {x \in DefaultPairs :
     /\ PlaceOf(KeyOf(x)) # ""
     /\ ValOf(x).kind = scalarNode
     /\ ~d_unmarshal(ValOf(x), "", PlaceOf(KeyOf(x)), Zero(PlaceOf(KeyOf(x))), MapIfaceT).good}

\* The entries of d.terrors that are about scalars.
ScalarErrors == {i \in 1..Len(terrors) : terrors[i].tag # ini_MAP_TAG}

\* The pair x of the default section is bound in the destination.
BoundAt(x) ==
  LET v == AsType(ValOf(x), PlaceOf(KeyOf(x)))
  IN IF dst = StructT THEN Field(bound, KeyOf(x)) = v
     ELSE Item(StrV(KeyOf(x)), v) \in bound.entries

\* C26: a scalar that cannot be coerced does not abort the call: the call
\* returns, every other key is bound, and the error returned is one
\* TypeError with one entry for each scalar that failed.
C26_TypeErrorsCollected ==
  (pc = "returned" /\ dst \in {StructT, MapStringInt8T}) =>
     /\ err = IF terrors = <<>> THEN NoError ELSE TypeError(terrors)
     /\ Cardinality(ScalarErrors) = Cardinality(FailedScalars)
     /\ UniqueSections =>
          \A x \in DefaultPairs \ FailedScalars :
            (PlaceOf(KeyOf(x)) # "" /\ ValOf(x).kind = scalarNode) => BoundAt(x)

\* A struct was bound from a document whose key a failed and whose key b was
\* bound.
C26_Witness ==
  /\ pc = "returned" /\ dst = StructT /\ UniqueSections
  /\ Len(terrors) = 1 /\ terrors[1].value = "128"
  /\ Field(bound, "b") = IntV(2)
  /\ err = TypeError(terrors)

(***************************************************************************)
(* C27.  Integers outside the range of the destination.                    *)
(***************************************************************************)
\* The range of an integer type.
InRange(x, t) ==
  IF t = Uint8T THEN x \in 0..(2^Bits(t) - 1)
  ELSE x \in (-(2^(Bits(t) - 1)))..(2^(Bits(t) - 1) - 1)

\* The pairs of the default section whose destination is of an integer type
\* and whose value is an integer outside the range of that type.
OutOfRange ==
  {x \in DefaultPairs :
     /\ PlaceOf(KeyOf(x)) \in {Int8T, Uint8T}
     /\ ValOf(x).kind = scalarNode
     /\ IsInt(ValOf(x).value)
     /\ ~InRange(ParseInt(ValOf(x).value), PlaceOf(KeyOf(x)))}

\* C27: an integer that does not fit the destination integer type is not
\* stored: the entry of the map stays absent (the field of the struct stays
\* zero) and a type error is recorded for it.
C27_OverflowNotStored ==
  (pc = "returned" /\ UniqueSections) =>
     \A x \in OutOfRange :
       /\ dst = MapStringInt8T => \A e \in bound.entries : e.key # StrV(KeyOf(x))
       /\ dst = StructT => Field(bound, KeyOf(x)) = IntV(0)
       /\ \E i \in 1..Len(terrors) :
            /\ terrors[i].tag = ini_INT_TAG
            /\ terrors[i].value = ValOf(x).value
            /\ terrors[i].into = PlaceOf(KeyOf(x))

\* A map of int8 was bound from a document with the value 128, and a struct
\* from a document with the value -1 for its uint8 field.
C27_Witness ==
  /\ pc = "returned" /\ UniqueSections /\ OutOfRange # {}
  /\ \/ dst = MapStringInt8T /\ \E x \in OutOfRange : ValOf(x).value = "128"
     \/ dst = StructT /\ \E x \in OutOfRange : ValOf(x).value = "-1"

(***************************************************************************)
(* C28.  The order of the items of a MapSlice.                             *)
(***************************************************************************)
\* The item of the p-th pair of ch: the key of the pair and the value bound
\* from the value node of the pair.
ItemOf(ch, p) ==
  Item(StrV(KeyAt(ch, p).value), d_unmarshal(ValAt(ch, p), "", IfaceT, Nil, MapSliceT).val)

\* One item for each pair of ch, in the order of ch.
ItemsOf(ch) == [p \in 1..Pairs(ch) |-> ItemOf(ch, p)]

RECURSIVE ItemsInOrder(_)
\* The items of the document from its i-th section on: the pairs of the
\* default section are items themselves, another section is one item.
ItemsInOrder(i) ==
  IF i > Pairs(doc) THEN <<>>
  ELSE (IF KeyAt(doc, i).value = DEFAULT_SECTION THEN ItemsOf(ValAt(doc, i).children)
        ELSE <<ItemOf(doc, i)>>)
       \o ItemsInOrder(i + 1)

\* The items the destination MapSlice holds; a nil slice holds none.
ItemsBound == IF bound.kind = "slice" THEN bound.items ELSE <<>>

\* C28: a document bound into a MapSlice gives its keys in document order,
\* one item per key with the value of that key, the keys of the default
\* section included.
C28_MapSliceInOrder ==
  dst = MapSliceT => pc = "returned" /\ ItemsBound = ItemsInOrder(1)

\* The same for documents without pairs in the default section.
SectionsInOrder ==
  (dst = MapSliceT /\ DefaultPairs = {}) => pc = "returned" /\ ItemsBound = ItemsInOrder(1)

(***************************************************************************)
(* C30.  The extent of a plain value.                                      *)
(***************************************************************************)
\* This step fetches a value that is written without quotes.
PlainValueFetched ==
  /\ buffer # <<>>
  /\ Head(buffer).lex = "="
  /\ Head(buffer).quote = ""
  /\ Head(buffer).text # QuotesThenText
  /\ buffer' = Tail(buffer)

\* The characters of cs before the first one that ends a line or is in stops.
RECURSIVE Before(_, _)
Before(cs, stops) ==
  IF cs = <<>> \/ is_breakz(Head(cs)) \/ Head(cs) \in stops THEN <<>>
  ELSE <<Head(cs)>> \o Before(Tail(cs), stops)

\* The value of group g: its characters from the first one that is no blank
\* to the end of the line or the first of stops, less the blanks at the end.
ValueUpTo(g, stops) == Str(TrimRight(Before(SkipBlanks(Raw(g, LF)), stops)))

\* The value of the SCALAR token this step appends.
ValueFetched == Fetched[Len(Fetched)].value

\* C30: the plain value of a line is its text from the first non-blank
\* character behind "=" to the end of the line or to the first "#",
\* whichever comes first, without the blanks at its end.
C30_PlainValueExtent ==
  [][PlainValueFetched => ValueFetched = ValueUpTo(Head(buffer), {"#"})]_vars

\* The same with the end of the line and "=" as the only ends of a value.
PlainValueToLineEnd ==
  [][PlainValueFetched => ValueFetched = ValueUpTo(Head(buffer), {"="})]_vars

(***************************************************************************)
(* C29.  Calls of Unmarshal that run at the same time.                     *)
(***************************************************************************)
\* The goroutines inside a call of Unmarshal.
Running == {g \in Goroutines : call[g].pc # "idle"}

\* The objects of the call of g: its decoder and its parser, with the
\* scanner, the builder's fields and the node tree the parser holds.
ObjectsOf(g) == {call[g].d, call[g].p}

\* No object belongs to two calls.
OwnObjects ==
  \A g, h \in Running :
    /\ Cardinality(ObjectsOf(g)) = 2
    /\ g # h => ObjectsOf(g) \cap ObjectsOf(h) = {}

\* A goroutine that reads structMap holds the mutex for reading, one that
\* writes it holds the mutex for writing.
UnderLock ==
  \A g \in Goroutines :
    /\ call[g].pc = "load" => g \in fieldMapMutex.readers
    /\ call[g].pc = "store" => fieldMapMutex.writer = g

\* No goroutine writes structMap while another reads or writes it.
NoRace ==
  \A g, h \in Goroutines :
    (g # h /\ call[g].pc = "store") => call[h].pc \notin {"load", "store"}

\* What getStructInfo returns for a type is what its fields give, whether it
\* was found in the cache or built by the call, and what the cache holds
\* for a type is the same.
EquivalentInfo ==
  /\ \A g \in Goroutines :
       call[g].pc = "return" =>
         Info(call[g].sinfo, call[g].err) = FieldsLoop(call[g].st, 1, {}, <<>>)
  /\ \A t \in StructTypes :
       structMap[t].found => Info(structMap[t].sinfo, "") = FieldsLoop(t, 1, {}, <<>>)

\* C29: calls of Unmarshal that run at the same time share no decoder and
\* no parser; structMap is read and written only under fieldMapMutex, never
\* by two goroutines at once when one of them writes; and the lookups of a
\* type, first ones that run at the same time included, return equivalent
\* field info.
C29_ConcurrentCallsSafe == OwnObjects /\ UnderLock /\ NoRace /\ EquivalentInfo

\* Two goroutines looked the same type up when the cache did not hold it,
\* both built its info, one has stored it and returns, the other is
\* storing its own.
C29_Witness ==
  \E g, h \in Goroutines :
    /\ g # h
    /\ call[g].st = call[h].st
    /\ ~call[g].found /\ ~call[h].found
    /\ call[g].pc = "return" /\ call[g].err = ""
    /\ call[h].pc = "store"
    /\ structMap[call[g].st].found

(***************************************************************************)
(* C31.  Escape sequences in a double-quoted scalar.                       *)
(***************************************************************************)
\* This step fetches a value that is written in double quotes and holds no
\* quote.
DoubleQuotedValueFetched ==
  /\ buffer # <<>>
  /\ Head(buffer).lex = "="
  /\ Head(buffer).quote = "\""
  /\ \A i \in 1..Len(Chars(Head(buffer).text)) : Chars(Head(buffer).text)[i] # "\""
  /\ buffer' = Tail(buffer)

RECURSIVE Unescaped(_)
\* The characters cs with every escape sequence replaced by the character
\* it denotes.
Unescaped(cs) ==
  IF cs = <<>> THEN <<>>
  ELSE IF Head(cs) = "\\" /\ Len(cs) >= 2 /\ cs[2] \in DOMAIN EscapeOf
       THEN <<EscapeOf[cs[2]]>> \o Unescaped(SubSeq(cs, 3, Len(cs)))
       ELSE <<Head(cs)>> \o Unescaped(Tail(cs))

\* C31: the value of a double-quoted scalar is its text with each escape
\* sequence replaced by the character the sequence denotes.
C31_EscapesReplaced ==
  [][DoubleQuotedValueFetched =>
       ValueFetched = Str(Unescaped(Chars(Head(buffer).text)))]_vars

\* The value of a double-quoted scalar is its text as it stands, a "\" and
\* the character behind it included.
EscapesKept ==
  [][DoubleQuotedValueFetched => ValueFetched = Str(Chars(Head(buffer).text))]_vars

\* An escape sequence that stands behind a doubled quote, where an
\* iteration of the scanner's loop starts, is replaced.
EscapesReplacedBehindQuotes ==
  [][(buffer # <<>> /\ Head(buffer).lex = "=" /\ Head(buffer).quote = "\""
      /\ Head(buffer).text \in {"quotes_tab", "quotes_hex"} /\ buffer' = Tail(buffer))
     => ValueFetched = (IF Head(buffer).text = "quotes_tab" THEN "\t" ELSE "A")]_vars

(***************************************************************************)
(* Section headers without the closing "]".  The scanner has no token for  *)
(* the header as a whole: "[" and the name, ":" and the parent, and "]"    *)
(* are fetched one by one, and the parser's handler for the state          *)
(* SECTION_ENTRY is the one that looks for the "]" token.                  *)
(***************************************************************************)
\* ini_parser_parse_section_entry runs for a header ("[" and its name were
\* parsed) and the token behind the header is not the one of "]": the line
\* of the header ended without it.
UnclosedHeaderParsed ==
  /\ Handler("SECTION_ENTRY")
  /\ header # "none"
  /\ ~NilToken
  /\ Head(tokens).typ # "SECTION_ENTRY"
  /\ state' # state

\* C32: a section header that lacks its closing "]" is rejected with an
\* error and produces no section: the parser's step at the place of the
\* missing "]" fails the parse with an error and returns no SectionEntry
\* event.
C32_UnclosedHeaderRejected ==
  [][UnclosedHeaderParsed
       => pc' = "failed" /\ error' # "NO_ERROR" /\ event'.typ # "SECTION_ENTRY"]_vars

\* What the handler does instead: it returns the SectionEntry event that
\* opens the section, with no error, and leaves the token where it is.
UnclosedHeaderOpensSection ==
  [][UnclosedHeaderParsed
       => /\ event' = Event("SECTION_ENTRY", "")
          /\ error' = "NO_ERROR" /\ pc' = pc
          /\ tokens' = tokens]_vars

(***************************************************************************)
(* The first character of a key.  A key group of the text holds the key    *)
(* as it is written: plain, between single quotes or between double        *)
(* quotes, its segments separated by ".".                                  *)
(***************************************************************************)
\* A segment of the key of group g starts with a character that is neither
\* a letter, a digit, "_" nor "-".
StartsWrong(g) == \E i \in 1..Len(g.path) : ~is_alpha(g.path[i])

\* The dispatcher calls ini_parser_fetch_key for a key with such a segment.
StarredKeyFetched == Found("key") /\ StartsWrong(Head(buffer)) /\ vars' # vars

\* The fetch fails with the scanner's error and appends no token.
KeyRejected ==
  /\ fetch_failed' /\ error' = "SCANNER_ERROR"
  /\ problem' = cannot_start("*")
  /\ tokens' = tokens

KeyFetched == Found("key") /\ tokens' # tokens

\* The tokens ts are those of the segments segs in their order: a Key token
\* and the Scalar token of each segment, and a Map token behind every
\* segment but the last.
TokensOfSegments(ts, segs) ==
  /\ Len(ts) = 3 * Len(segs) - 1
  /\ \A i \in 1..Len(segs) :
       /\ ts[3 * i - 2].typ = "KEY"
       /\ ts[3 * i - 1].typ = "SCALAR"
       /\ ts[3 * i - 1].value = segs[i]
       /\ i < Len(segs) => ts[3 * i].typ = "MAP"

\* Node n is a chain of Mapping nodes along the key segments segs, one node
\* with one pair per segment, that ends in the scalar v.
RECURSIVE IsChain(_, _, _)
IsChain(n, segs, v) ==
  IF segs = <<>> THEN n.kind = scalarNode /\ Plain(n) = Plain(v)
  ELSE /\ n.kind = mappingNode
       /\ Pairs(n.children) = 1
       /\ KeyAt(n.children, 1).kind = scalarNode
       /\ KeyAt(n.children, 1).value = Head(segs)
       /\ IsChain(ValAt(n.children, 1), Tail(segs), v)

\* The last assignment gave the section a key it did not have.
AssignedNewKey == Assigned /\ ~HasKey(h_assign.before, h_assign.path[1])

\* C34: a key of n segments separated by "." is scanned into n pairs of a Key
\* and a Scalar token with one Map token between consecutive pairs, in the
\* order of the segments, and is parsed into a chain of n - 1 nested Mapping
\* nodes below the first segment, with the value at the last segment.
C34_DottedKeyNested ==
  /\ [][KeyFetched => TokensOfSegments(Fetched, Head(buffer).path)]_vars
  /\ [](AssignedNewKey
          => IsChain(Child(thisNode.children, h_assign.path[1]),
                     Tail(h_assign.path), h_assign.val))

\* C34 happens: a key of MaxDepth segments, new in its section, has been
\* assigned, and the section holds the chain of its mappings.
C34_Witness ==
  /\ AssignedNewKey
  /\ Len(h_assign.path) = MaxDepth
  /\ NodeAt(thisNode, Prefix(h_assign.path, MaxDepth - 1)).kind = mappingNode
  /\ NodeAt(thisNode, h_assign.path).kind = scalarNode

(***************************************************************************)
(* Comment lines.  The only place where the scanner looks for "#" or ";"   *)
(* is ini_parser_scan_to_next_token, which the dispatcher calls before     *)
(* every token.                                                            *)
(***************************************************************************)
\* The scanner consumes the comment at the head of the buffer.
CommentConsumed == Found("comment") /\ buffer' # buffer

\* C35: a line whose first character that is no blank is "#" or ";" never
\* changes the parsed content.  Every such line is consumed whole, line
\* break included, by one step that appends no token and leaves the parser,
\* the tree builder and the result as they are: the scanner stands at the
\* start of the next line as it stood at the start of the comment line.
C35_CommentLinesSkipped ==
  [][CommentConsumed
       => /\ buffer' = <<>> /\ column' = 0
          /\ UNCHANGED <<eof, document_start_produced, scan, h_fetch, tokens, queue,
                         fetch_failed, parserv, event, skipping, builder, err>>]_vars

\* C35 happens: three lines were read, the second one a comment, and the
\* tree holds the keys of the first and the third line, as it does for the
\* two lines alone.
C35_Witness ==
  /\ pc = "returned"
  /\ nlines = 3
  /\ Pairs(doc) = 1
  /\ KeysOf(ValAt(doc, 1).children) = <<"a", "b">>
  /\ Child(ValAt(doc, 1).children, "a").value = "1"
  /\ Child(ValAt(doc, 1).children, "b").value = "3"

(***************************************************************************)
(* The token queue.  The scanner appends to parser.tokens and the parser   *)
(* reads parser.tokens[parser.tokens_head] and advances the head; the      *)
(* variable tokens is the sequence of the tokens fetched and not yet       *)
(* parsed, in the order the fetchers appended them.                        *)
(***************************************************************************)
\* The tokens of the array from parser.tokens_head on.
Unparsed == SubSeq(queue.tokens, queue.tokens_head + 1, Len(queue.tokens))

\* C36: the parser consumes the tokens in exactly the order the scanner
\* produced them, none lost, duplicated or reordered: at every moment the
\* array holds, from the head on, exactly the tokens fetched and not yet
\* parsed, in the order of their production, whatever ini_insert_token has
\* done to the array, and the head never passes the end of the array.
C36_TokensInOrder ==
  /\ Unparsed = tokens
  /\ queue.tokens_head <= Len(queue.tokens)
  /\ Len(queue.tokens) <= queue.cap

\* C36 happens: the array has been moved to its start (it holds no more
\* tokens than half its capacity, which growth alone never gives) and a
\* token appended since then waits to be parsed.
C36_Witness ==
  /\ Len(queue.tokens) >= 1
  /\ 2 * Len(queue.tokens) <= queue.cap
  /\ tokens # <<>>
  /\ Unparsed = tokens

\* The fetchers are called with an empty queue only, ini_parser_fetch_more_tokens
\* (scannerc.go 365-376) fetching when parser.tokens_head is the length of
\* the array: whenever tokens are appended, every token of the array has
\* been parsed, so the array is never moved while it holds unparsed tokens.
FetchedIntoEmptyQueue ==
  [][tokens' # tokens /\ Len(tokens') > Len(tokens)
       => queue.tokens_head = Len(queue.tokens) /\ tokens = <<>>]_vars

(***************************************************************************)
(* The position in the message of an error.  p.fail composes the message   *)
(* of a scanner or parser error from parser.problem_mark and               *)
(* parser.problem; the tree builder's own error, for an inherited section  *)
(* that does not exist, is raised by failf with the name alone (decode.go  *)
(* 781-783), the nodes at hand carrying the line of their event.           *)
(***************************************************************************)
\* The call has failed with an error of the scanner, the parser or the tree
\* builder.
FailedWithPosition ==
  pc = "failed" /\ err.kind = "ini" /\ h_fetch.kind # "READER_ERROR"

\* The error is the tree builder's.
InheritFailed == err.msg = "inherit section '%s' does not exists"

\* What stands between "ini: " and the message proper.
MessagePosition == IF InheritFailed THEN "" ELSE where

\* C37: every error of the scanner, the parser or the merge engine carries
\* the line of the failure: its message has the form "ini: line <n>:
\* <message>" on whichever line of the input the failure lies, the position
\* of the failure being known.
C37_ErrorsCarryLine ==
  FailedWithPosition
    => /\ MessagePosition # ""
       /\ ~InheritFailed => MessagePosition = "line " \o ToString(problem_mark) \o ": "

\* What holds instead: the message of a scanner or parser error has a line
\* exactly when the failure lies below the first line of the text, and the
\* tree builder's error has none.
ErrorsCarryLineBelowFirst ==
  FailedWithPosition
    => (MessagePosition # "" <=> (~InheritFailed /\ problem_mark >= 1))

(***************************************************************************)
(* The byte-order mark.  The reader passes U+FEFF on as a character        *)
(* (readerc.go 196-208) and ini_parser_scan_to_next_token skips it at the  *)
(* start of a line.                                                        *)
(***************************************************************************)
\* The dispatcher looks at the first group behind a byte-order mark: a key
\* stands at column 1 only there, and so does the "[" of the header [t].
AfterBom ==
  /\ NeedToken /\ document_start_produced
  /\ buffer # <<>>
  /\ column = 1
  /\ \/ Head(buffer).lex = "key"
     \/ Head(buffer).lex = "[" /\ Head(buffer).text = BomSection
  /\ tokens' # tokens

\* The tokens the fetchers append for the group g when it starts a line.
TokensAtLineStart(g) ==
  IF g.lex = "[" THEN <<Token("SECTION_START", "["), Token("SCALAR", g.text)>>
  ELSE KeyTokens(g.path, 1)

\* C38: a byte-order mark at the start of a line is transparent: the line
\* behind it is scanned into the tokens of the same line without the mark,
\* also when the line is a section header.
C38_BomTransparent ==
  [][AfterBom => Fetched = TokensAtLineStart(Head(buffer))]_vars

\* What holds instead: a key behind the mark is scanned as it is without
\* the mark, and a header behind the mark is scanned as a key, the whole
\* line being its text.
BomTransparentBeforeKey ==
  [][AfterBom
       => Fetched = (IF Head(buffer).lex = "key" THEN TokensAtLineStart(Head(buffer))
                     ELSE KeyTokens(<<Text(buffer)>>, 1))]_vars

(***************************************************************************)
(* The shape of the event stream.  parser.document reads a name, then an   *)
(* Inherit event or the SectionEntry that opens the section (decode.go     *)
(* 763-790); parser.section reads pairs of a key and a value until the     *)
(* SectionEntry that closes it (793-841); parser.mapping reads one such    *)
(* pair below a Mapping event (843-883).                                   *)
(***************************************************************************)
\* Where a reader of the stream stands behind an event of kind e, having
\* stood at place q: "start" before the stream, "groups" between two section
\* groups, "name" behind the name of a section, "inherit" behind its Inherit
\* event, "entries" between two entries of a section, "key" behind a key,
\* "mapping" behind a Mapping event, "end" behind DocumentEnd, and "none"
\* when the stream has left the shape.
ShapeStep(q, e) ==
  CASE q = "start" /\ e = "DOCUMENT_START" -> "groups"
    [] q = "groups" /\ e = "SCALAR" -> "name"
    [] q = "groups" /\ e = "DOCUMENT_END" -> "end"
    [] q = "name" /\ e = "SECTION_INHERIT" -> "inherit"
    [] q \in {"name", "inherit"} /\ e = "SECTION_ENTRY" -> "entries"
    [] q = "entries" /\ e = "SCALAR" -> "key"
    [] q = "entries" /\ e = "SECTION_ENTRY" -> "groups"
    [] q = "key" /\ e = "MAPPING" -> "mapping"
    [] q = "key" /\ e = "SCALAR" -> "entries"
    [] q = "mapping" /\ e = "SCALAR" -> "key"
    [] OTHER -> "none"

\* The place behind the first n events of es.
RECURSIVE Shape(_, _)
Shape(es, n) == IF n = 0 THEN "start" ELSE ShapeStep(Shape(es, n - 1), es[n])

\* The input was accepted: the parse ended without an error.
Accepted == pc \in {"done", "returned"}

\* C39: the events the parser returns for an accepted input have the shape
\* the tree builder relies on: DocumentStart, section groups, DocumentEnd, a
\* group being a Scalar name, an optional SectionInherit, the opening
\* SectionEntry, entries (a key Scalar, any number of Mapping and key Scalar,
\* one value Scalar) and the closing SectionEntry.  The events returned so
\* far never leave the shape, and at the end of an accepted input they are
\* a whole stream.
C39_EventStreamShape ==
  /\ Shape(h_events, Len(h_events)) # "none"
  /\ Accepted => Shape(h_events, Len(h_events)) = "end"

\* C39 happens: an accepted input with a section that inherits and a dotted
\* key, and a section before it.
C39_Witness ==
  /\ Accepted
  /\ Shape(h_events, Len(h_events)) = "end"
  /\ EventCount("SECTION_INHERIT") >= 1
  /\ EventCount("MAPPING") >= 1
  /\ EventCount("SECTION_ENTRY") >= 4

====
